---- MODULE Spec2Model ----
(***************************************************************************)
(* Model of the resilient retrieval layer of dutch-legal-mcp:              *)
(*   ApiClient (TTL cache, retry with backoff, tagged results),            *)
(*   ApiClientFactory (registry of clients per base address) and           *)
(*   RechtspraakCaseLawService (search -> per-identifier detail fetch).    *)
(* Every action is one synchronous run of the JavaScript event loop: the   *)
(* code between two awaits that touches shared state (cache, registry).    *)
(***************************************************************************)
EXTENDS Integers, Sequences, FiniteSets, TLC

(* ------------------------------ bounds -------------------------------- *)
\* concurrent top-level invocations; a flow that has returned can be called again
NumFlows == 1
\* number of times the wall clock advances
MaxTicks == 1
\* number of ApiClient instances the factory constructs
MaxInsts == 2
\* number of calls made on the DIContainer
MaxCalls == 6
\* number of data types in one GDPR assessment
MaxTypes == 3
\* number of concurrent callers of executeTool
NumCallers == 2

(* ------------------------- program constants -------------------------- *)
CACHE_TTL == 5 * 60 * 1000
maxRetries == 3
baseDelay == 1000
maxDelay == 5000
TIMEOUT == 10000

Flows == 1..NumFlows

RECURSIVE pow(_, _)
\* Math.pow(b, n) for a natural exponent
pow(b, n) == IF n = 0 THEN 1 ELSE b * pow(b, n - 1)

min(a, b) == IF a <= b THEN a ELSE b

(* ------------------------------ addresses ----------------------------- *)
\* A string built by concatenation is the sequence of its pieces; the empty
\* sequence is the empty string, and also an omitted (undefined) argument:
\* the code only ever tests these two for falsiness.
NoBase == <<>>
RechtspraakBase == <<"https://data.rechtspraak.nl/uitspraken">>
ExampleUrl == <<"https://example.org/data">>
AbsoluteOrigins == {"https://data.rechtspraak.nl/uitspraken", "https://example.org/data"}

\* what Node's URL constructor accepts: the string starts with an origin
isAbsolute(u) == Len(u) > 0 /\ u[1] \in AbsoluteOrigins

\* axios resolves url against baseURL; the adapter throws 'Invalid URL' when
\* the result is not absolute (tests: get('') and get('invalid-url-format')
\* on a client without base address)
validTarget(baseURL, url) == isAbsolute(url) \/ isAbsolute(baseURL)

(* ------------------------------ payloads ------------------------------ *)
NoData == [t |-> "undefined"]
NoTree == [t |-> "null"]

\* decoded nodes: a field is absent, a scalar, or an array of items
Absent == [k |-> "absent"]
Scalar(s) == [k |-> "scalar", v |-> s]
Array(items) == [k |-> "array", v |-> items]
NoRdf == [identifier |-> Absent, creator |-> Absent, date |-> Absent,
          subject |-> Absent, zaaknummer |-> Absent]
\* a decoded document: data.feed.entry for a search answer,
\* data['open-rechtspraak']['rdf:RDF']['rdf:Description'] for a content answer
Tree(feed, entry, root, rdf) ==
  [t |-> "tree", feed |-> feed, entry |-> entry, root |-> root, rdf |-> rdf]
OtherTree == Tree(FALSE, Absent, FALSE, NoRdf)
\* a raw response body: its text stands for itself, tree is what the XML
\* parser builds from it when it is well-formed
Raw(text, wf, tree) == [t |-> "raw", text |-> text, wellFormed |-> wf, tree |-> tree]
EmptyPayload == Raw("", FALSE, NoTree)
MalformedPayload == Raw("<feed><entry>", FALSE, NoTree)
\* a body of white space only: no document, so not well-formed
BlankTexts == {" "}
BlankPayload == Raw(" ", FALSE, NoTree)
DocPayload == Raw("<a>1</a>", TRUE, OtherTree)

\* JavaScript truthiness of a response payload (!response.data)
truthyData(d) == d # NoData /\ d # NoTree /\ (d.t = "raw" => d.text # "")

(* --------------------------- errors, results -------------------------- *)
NoError == [name |-> "none", message |-> "", statusCode |-> 0,
            response |-> [truthy |-> FALSE, status |-> 0, message |-> ""]]
Null == [null |-> TRUE]

\* how an async function ends: with a value, or rejected with an error
Thrown(error) == [threw |-> TRUE, error |-> error]
isThrown(x) == "threw" \in DOMAIN x

\* HTTP error bodies (error.response.data): falsy when empty; a JSON body may
\* carry its own status and message fields (0 and "" when it has none)
Body(truthy, status, message) == [truthy |-> truthy, status |-> status, message |-> message]
NoBody == Body(FALSE, 0, "")
TextBody == Body(TRUE, 0, "")

axiosMessage(status) ==
  CASE status = 404 -> "Request failed with status code 404"
    [] status = 429 -> "Request failed with status code 429"
    [] status = 500 -> "Request failed with status code 500"
    [] OTHER -> "Request failed"

\* what axios rejects with, before the response interceptor
NetworkFailure == [kind |-> "network", hasResponse |-> FALSE, status |-> 0,
                   data |-> NoBody, message |-> "Network Error"]
InvalidUrl == [kind |-> "invalid", hasResponse |-> FALSE, status |-> 0,
               data |-> NoBody, message |-> "Invalid URL"]
HttpFailure(status, body) == [kind |-> "http", hasResponse |-> TRUE, status |-> status,
                              data |-> body, message |-> axiosMessage(status)]
\* the timeout() wrapper wins the race: a plain Error, not an axios error
TimedOut == [kind |-> "timeout", hasResponse |-> FALSE, status |-> 0,
             data |-> NoBody, message |-> "Operation timed out after 10000ms"]

\* setupInterceptors, response error handler: every axios rejection becomes
\* an APIError(message, statusCode, response = error.response?.data)
interceptor(error) ==
  [name |-> "APIError",
   message |-> IF error.hasResponse /\ error.data.message # "" THEN error.data.message
               ELSE IF error.message # "" THEN error.message
               ELSE "API request failed",
   statusCode |-> IF error.hasResponse THEN error.status ELSE 0,
   response |-> IF error.hasResponse THEN error.data ELSE NoBody]

\* timeout(promise, ms): rejects with a plain Error when the delay wins
timeout(error) ==
  IF error.kind = "timeout"
  THEN [name |-> "Error", message |-> error.message, statusCode |-> 0, response |-> NoBody]
  ELSE interceptor(error)

PlainError(message) ==
  [name |-> "Error", message |-> message, statusCode |-> 0, response |-> NoBody]

\* retryRequest: the retry predicate, read off the caught error
shouldRetry(error) ==
  \/ ~error.response.truthy
  \/ (error.response.status >= 500 /\ error.response.status <= 599)
  \/ error.response.status = 429

\* variant: the delay grows by baseDelay with every retry
retryDelay_Linear(retryCount) == min(baseDelay * (retryCount + 1), maxDelay)

\* retryRequest: the delay before the retry that follows attempt retryCount
retryDelay(retryCount) == min(baseDelay * pow(2, retryCount), maxDelay)

\* a success result; metadata.timestamp, which nothing reads, is left out
Success(data) == [success |-> TRUE, data |-> data, error |-> ""]

\* handleError: the tagged failure result
handleError(error) == [success |-> FALSE, data |-> NoData, error |-> error.message]

(* -------------------------------- cache -------------------------------- *)
\* what a cache holds under a key, without the time it was stored
NoHeld == [data |-> NoData, etag |-> ""]
held(cm, key) ==
  IF key \in DOMAIN cm THEN [data |-> cm[key].data, etag |-> cm[key].etag] ELSE NoHeld

\* JSON.stringify(params): the text of an object, its members in insertion
\* order, as a sequence of pieces (quotes and escapes left out)
RECURSIVE members(_)
members(params) ==
  IF params = <<>> THEN <<>>
  ELSE <<params[1][1], ":", params[1][2]>>
       \o (IF Len(params) > 1 THEN <<",">> ELSE <<>>)
       \o members(Tail(params))

stringify(params) == <<"{">> \o members(params) \o <<"}">>

\* getCacheKey: `${url}-${JSON.stringify(config?.params || {})}`
getCacheKey(url, params) == url \o <<"-">> \o stringify(params)

without(cm, key) == [k \in DOMAIN cm \ {key} |-> cm[k]]

\* variant: an entry counts as expired as soon as its age reaches the TTL
getCachedResponse_Eager(cm, cacheKey, t) ==
  IF cacheKey \notin DOMAIN cm THEN [response |-> Null, cache |-> cm]
  ELSE LET entry == cm[cacheKey]
           isExpired == t - entry.timestamp >= CACHE_TTL
       IN IF isExpired
          THEN [response |-> Null, cache |-> without(cm, cacheKey)]
          ELSE [response |-> Success(entry.data), cache |-> cm]

\* variant: meeting an expired entry empties the whole cache
getCachedResponse_Flush(cm, cacheKey, t) ==
  IF cacheKey \notin DOMAIN cm THEN [response |-> Null, cache |-> cm]
  ELSE LET entry == cm[cacheKey]
           isExpired == t - entry.timestamp > CACHE_TTL
       IN IF isExpired
          THEN [response |-> Null, cache |-> <<>>]
          ELSE [response |-> Success(entry.data), cache |-> cm]

\* variant: entries never expire
getCachedResponse_NoTTL(cm, cacheKey, t) ==
  IF cacheKey \notin DOMAIN cm THEN [response |-> Null, cache |-> cm]
  ELSE [response |-> Success(cm[cacheKey].data), cache |-> cm]

\* getCachedResponse: null on a miss, lazy eviction of an expired entry
getCachedResponse(cm, cacheKey, t) ==
  IF cacheKey \notin DOMAIN cm THEN [response |-> Null, cache |-> cm]
  ELSE LET entry == cm[cacheKey]
           isExpired == t - entry.timestamp > CACHE_TTL
       IN IF isExpired
          THEN [response |-> Null, cache |-> without(cm, cacheKey)]
          ELSE [response |-> Success(entry.data), cache |-> cm]

\* variant: the entry is stored without the response's etag
setCachedResponse_NoEtag(cm, cacheKey, data, etag, t) ==
  (cacheKey :> [data |-> data, timestamp |-> t, etag |-> ""]) @@ cm

\* variant: an entry that exists is updated in place and keeps its etag
setCachedResponse_Merge(cm, cacheKey, data, etag, t) ==
  (cacheKey :> [data |-> data, timestamp |-> t,
                etag |-> IF cacheKey \in DOMAIN cm THEN cm[cacheKey].etag ELSE etag]) @@ cm

\* setCachedResponse
setCachedResponse(cm, cacheKey, data, etag, t) ==
  (cacheKey :> [data |-> data, timestamp |-> t, etag |-> etag]) @@ cm

(* ------------------------------- values ------------------------------- *)
\* JavaScript values as they arrive in tool arguments and request parameters
Undefined == [t |-> "undefined"]
NullValue == [t |-> "null"]
Str(s) == [t |-> "string", v |-> s]
Num(n) == [t |-> "number", v |-> n]
Bool(b) == [t |-> "boolean", v |-> b]
List(items) == [t |-> "array", v |-> items]
Obj(fields) == [t |-> "object", v |-> fields]

\* ToBoolean
truthy(x) ==
  CASE x.t \in {"undefined", "null"} -> FALSE
    [] x.t = "string" -> x.v # ""
    [] x.t = "number" -> x.v # 0
    [] x.t = "boolean" -> x.v
    [] OTHER -> TRUE

\* o.k: undefined when the object has no such property
prop(o, k) == IF k \in DOMAIN o.v THEN o.v[k] ELSE Undefined

\* what `x.forEach is not a function` and the like are thrown as
TypeError(message) ==
  [name |-> "TypeError", message |-> message, statusCode |-> 0, response |-> NoBody]

(* ------------------------------ DIContainer --------------------------- *)
\* tokens are strings or symbols; String(token) of a symbol shows its description
Token(type, key) == [type |-> type, key |-> key]
StringOf(token) ==
  IF token.type = "symbol" THEN <<"Symbol(", token.key, ")">> ELSE <<token.key>>

\* ServiceDefinition: a class, a factory (an arrow function, which has no
\* prototype), or an object that is the service itself
Class(name) == [kind |-> "class", name |-> name]
Factory(name) == [kind |-> "factory", name |-> name]
Instance(name) == [kind |-> "instance", name |-> name]

\* an object: what made it, and which one it is (the registered object is 0,
\* the n-th object the container constructed is n)
Object(name, id) == [of |-> name, id |-> id]

\* new DIContainer(): two empty maps; count numbers the objects constructed
NewContainer == [services |-> <<>>, instances |-> <<>>, count |-> 0]

\* register: this.services.set(token, definition)
register(c, token, definition) ==
  [c EXCEPT !.services = (token :> definition) @@ c.services]

\* variant: resolve does not keep what it constructed
resolve_NoCache(c, token) ==
  IF token \in DOMAIN c.instances
  THEN [container |-> c, out |-> c.instances[token], invoked |-> FALSE]
  ELSE IF token \notin DOMAIN c.services
  THEN [container |-> c, invoked |-> FALSE,
        out |-> Thrown(PlainError(<<"Service not found: ">> \o StringOf(token)))]
  ELSE LET definition == c.services[token]
           instance == IF definition.kind = "instance" THEN Object(definition.name, 0)
                       ELSE Object(definition.name, c.count + 1)
       IN [container |-> [c EXCEPT !.count = IF definition.kind = "instance"
                                              THEN @ ELSE @ + 1],
           out |-> instance, invoked |-> definition.kind # "instance"]

\* resolve: the cached instance if there is one; else the definition, which
\* must be there; a class is constructed, a factory called, an object taken as
\* it is; the instance is cached. invoked tells whether a constructor or
\* factory ran. The definitions here are functions and objects, which are
\* truthy, so !definition says that the token has none.
resolve(c, token) ==
  IF token \in DOMAIN c.instances
  THEN [container |-> c, out |-> c.instances[token], invoked |-> FALSE]
  ELSE IF token \notin DOMAIN c.services
  THEN [container |-> c, invoked |-> FALSE,
        out |-> Thrown(PlainError(<<"Service not found: ">> \o StringOf(token)))]
  ELSE LET definition == c.services[token]
           instance == IF definition.kind = "instance" THEN Object(definition.name, 0)
                       ELSE Object(definition.name, c.count + 1)
       IN [container |-> [c EXCEPT !.instances = (token :> instance) @@ @,
                                   !.count = IF definition.kind = "instance"
                                             THEN @ ELSE @ + 1],
           out |-> instance, invoked |-> definition.kind # "instance"]

\* variant: clear forgets the definitions but keeps the instances
clearContainer_KeepInstances(c) == [c EXCEPT !.services = <<>>]

\* clear: this.services.clear(); this.instances.clear()
clearContainer(c) == [c EXCEPT !.services = <<>>, !.instances = <<>>]

(* --------------------------- errors, messages ------------------------- *)
\* new ServiceError(message, service)
ServiceError(message, service) ==
  [name |-> "ServiceError", message |-> message, statusCode |-> 0, response |-> NoBody,
   service |-> service]

\* withErrorHandling's catch: the three known classes are rethrown, anything
\* else is wrapped in a ServiceError
withErrorHandling(outcome) ==
  IF ~isThrown(outcome) THEN outcome
  ELSE IF outcome.error.name \in {"ValidationError", "APIError", "ServiceError"}
  THEN outcome
  ELSE Thrown(ServiceError(outcome.error.message, "UnknownService"))

\* errorToMessage: a text built from pieces
errorToMessage(error) ==
  CASE error.name = "ValidationError" -> <<"Validation error: ", error.message>>
    [] error.name = "APIError" -> <<"API error: ", error.message>>
    [] error.name = "ServiceError" ->
         <<"Service error (", error.service, "): ", error.message>>
    [] OTHER -> <<"An unexpected error occurred: ", error.message>>

(* ------------------------------ formatters ---------------------------- *)
\* an MCPResponse with one item
Response(text) == [content |-> <<[type |-> "text", text |-> text]>>]

\* variant: the message is returned without the prefix
formatError_NoPrefix(message) == Response(Str(<<message>>))

\* formatError
formatError(message) == Response(Str(<<"Error: ", message>>))

\* String.prototype.toUpperCase, on the words that are printed in capitals
toUpperCase(word) ==
  CASE word = "low" -> "LOW" [] word = "medium" -> "MEDIUM" [] word = "high" -> "HIGH"
    [] word = "critical" -> "CRITICAL" [] word = "unacceptable" -> "UNACCEPTABLE"
    [] word = "limited" -> "LIMITED" [] word = "minimal" -> "MINIMAL"
    [] word = "unknown" -> "UNKNOWN"

\* formatCourtCases: the text for no case, else the heading, the count and one
\* block per case (the fixed lines between the fields are left out)
formatCourtCases(cases) ==
  IF Len(cases) = 0
  THEN Str(<<"No court decisions found. Try broader search terms or different keywords.">>)
  ELSE Str(<<"# Court Case Law Results\n\n", "**Found:** ", Len(cases), " decisions\n\n",
             [index \in 1..Len(cases) |->
                <<"## ", index, ". ", cases[index].title,
                  "**ECLI:** ", cases[index].ecli,
                  "**Court:** ", cases[index].court,
                  "**Date:** ", cases[index].date,
                  "**Precedent Value:** ", toUpperCase(cases[index].precedentValue),
                  IF Len(cases[index].subjects) > 0
                  THEN <<"**Legal Domains:** ", cases[index].subjects>> ELSE <<>>,
                  "**URL:** [View Decision](", cases[index].url, ")",
                  IF index < Len(cases) THEN "---\n\n" ELSE "">>]>>)

\* formatGDPRResult
formatGDPRResult(result) ==
  Str(<<"# GDPR Compliance Assessment\n\n",
        "**Risk Level:** ", toUpperCase(result.riskLevel),
        "**Compliance Score:** ", result.score, "/100\n\n",
        IF Len(result.violations) > 0
        THEN <<"## Violations Found\n\n",
               [index \in 1..Len(result.violations) |->
                  <<index, ". **", result.violations[index].code, "** (",
                    result.violations[index].severity, ")">>]>>
        ELSE <<>>,
        IF Len(result.recommendations) > 0
        THEN <<"## Recommendations\n\n", result.recommendations>> ELSE <<>> >>)

\* formatAIActResult: result.metadata.riskCategory || 'unknown'
formatAIActResult(result) ==
  LET riskCategory == IF result.metadata.riskCategory = "" THEN "unknown"
                      ELSE result.metadata.riskCategory
  IN Str(<<"# EU AI Act Classification\n\n",
           "**Risk Category:** ", toUpperCase(riskCategory),
           "**Compliance Score:** ", result.score, "/100\n\n",
           CASE riskCategory = "unacceptable" -> "**PROHIBITED**"
             [] riskCategory = "high" -> "**HIGH RISK**"
             [] riskCategory = "limited" -> "**LIMITED RISK**"
             [] riskCategory = "minimal" -> "**MINIMAL RISK**"
             [] OTHER -> "",
           IF Len(result.recommendations) > 0
           THEN <<"## Compliance Requirements\n\n", result.recommendations>>
           ELSE <<>> >>)

\* formatRiskAssessment: aiActRisk is Null when the assessment has none
formatRiskAssessment(assessment) ==
  Str(<<"# Legal Risk Analysis\n\n",
        "**Overall Risk:** ", toUpperCase(assessment.overallRisk),
        "## GDPR Risk\n", assessment.gdprRisk.riskLevel, assessment.gdprRisk.score,
        IF assessment.aiActRisk # Null
        THEN <<"## AI Act Risk\n", assessment.aiActRisk.riskLevel,
               assessment.aiActRisk.score>>
        ELSE <<>>,
        IF Len(assessment.urgentActions) > 0
        THEN <<"## Urgent Actions\n\n", assessment.urgentActions>> ELSE <<>> >>)

\* formatDPAUpdates
formatDPAUpdates(updates) ==
  Str(<<"# Dutch DPA Updates (SAMPLE DATA)\n\n",
        "**Sample Updates Found:** ", Len(updates),
        [index \in 1..Len(updates) |->
           <<"## ", index, ". ", updates[index].title,
             "**Date:** ", updates[index].date,
             "**Category:** ", updates[index].category,
             "**Impact:** ", toUpperCase(updates[index].impact),
             updates[index].summary,
             "[Read more](", updates[index].url, ")",
             IF index < Len(updates) THEN "---\n\n" ELSE "">>]>>)

\* safeFormat(formatter)(data), given what formatter(data) came to: the text
\* in a response, or the error response for the message of what was thrown
safeFormat(formatted) ==
  IF isThrown(formatted) THEN formatError(formatted.error.message)
  ELSE Response(formatted)

(* ----------------------------- tool registry --------------------------- *)
ToolNames == {"search_dutch_case_law", "check_gdpr_compliance", "classify_ai_system",
              "analyze_legal_risk", "get_dpa_updates"}

\* XToolStrategy.execute after `await useCase.execute(...)` returned a value:
\* return safeFormat(formatX)(value)
strategyThen(name, value) ==
  CASE name = "search_dutch_case_law" -> safeFormat(formatCourtCases(value))
    [] name = "check_gdpr_compliance" -> safeFormat(formatGDPRResult(value))
    [] name = "classify_ai_system" -> safeFormat(formatAIActResult(value))
    [] name = "analyze_legal_risk" -> safeFormat(formatRiskAssessment(value))
    [] name = "get_dpa_updates" -> safeFormat(formatDPAUpdates(value))

\* variant: the strategy's catch block lets the error through
strategyCatch_Rethrow(error) == Thrown(error)

\* XToolStrategy.execute, the catch block
strategyCatch(error) == formatError(errorToMessage(error))

(* -------------------------------- state -------------------------------- *)
VARIABLES
  now,      \* Date.now()
  ticks,    \* how often the clock has advanced
  insts,    \* ApiClient instances: sequence of [baseURL, cache]
  clients,  \* ApiClientFactory.clients: registry key -> index into insts
  flow,     \* per invocation: operation, position, locals, result
  container,\* the DIContainer singleton: services, instances
  log       \* the calls made on the container so far, with their outcomes

vars == <<now, ticks, insts, clients, flow, container, log>>

\* Per flow: op and pc say where the invocation stands; inst, url, params are
\* the arguments of the transport call in progress; retryCount is
\* retryRequest's parameter; stage, eclis, maxResults, i, cases are the locals
\* of search. The rest records what the call did, for the properties:
\* attempts (calls of requestFn), wire (requests sent), open (requests sent
\* by this call that have not ended yet), delays (backoff delays slept), lookup and seen (what the cache lookup met), stored (what the call
\* put in the cache), lastError (the error of the attempt that failed last,
\* until the next attempt starts), inner (what get returned to getXML),
\* fetched (the identifiers getDetails was called for), request (the
\* parameters search was called with), searched (what the search call
\* returned to search), settled (how each getDetails call of search ended, in
\* call order), result and thrown (how the operation ended). For a tool call:
\* tool and args are executeTool's arguments, build is the way the decorator
\* was compiled, executed counts the use cases run, response is what
\* executeTool resolved with. risk is the risk score assessGDPR computed.
IdleFlow ==
  [op |-> "none", pc |-> "idle", inst |-> 0, url |-> <<>>, params |-> <<>>,
   retryCount |-> 0, attempts |-> 0, wire |-> 0, open |-> 0, delays |-> <<>>,
   lookup |-> "none", seen |-> NoHeld, stored |-> NoHeld,
   lastError |-> NoError, inner |-> Null, result |-> Null, thrown |-> NoError,
   stage |-> "none", baseUrl |-> <<>>, eclis |-> <<>>, maxResults |-> 0, i |-> 0,
   cases |-> <<>>, fetched |-> <<>>,
   request |-> [query |-> "", maxResults |-> 0], searched |-> Null,
   settled |-> <<>>,
   tool |-> Undefined, args |-> Undefined, build |-> "none", executed |-> 0,
   response |-> Null, risk |-> 0]

\* nothing constructed yet: the registry is empty
Init ==
  /\ now = 0
  /\ ticks = 0
  /\ insts = <<>>
  /\ clients = <<>>
  /\ flow = [f \in Flows |-> IdleFlow]
  /\ container = NewContainer
  /\ log = <<>>

\* one client constructed directly, as the tests do: new ApiClient()
InitClient ==
  /\ now = 0
  /\ ticks = 0
  /\ insts = <<[baseURL |-> NoBase, cache |-> <<>>]>>
  /\ clients = <<>>
  /\ flow = [f \in Flows |-> IdleFlow]
  /\ container = NewContainer
  /\ log = <<>>

\* the flow is not inside an operation: a new one can be invoked on it
ready(f) == flow[f].pc \in {"idle", "returned", "threw"}

\* executeTool settles with what the strategy came to
respond(fl, r) ==
  IF isThrown(r) THEN [fl EXCEPT !.pc = "threw", !.thrown = r.error]
  ELSE [fl EXCEPT !.pc = "returned", !.response = r]

\* an async function of the flow returns value; inside a tool call it is the
\* use case that has returned, and the strategy goes on to its own return
returns(fl, value) ==
  IF fl.tool = Undefined THEN [fl EXCEPT !.pc = "returned", !.result = value]
  ELSE respond([fl EXCEPT !.result = value], strategyThen(fl.tool.v, value))

\* an async function of the flow throws error; inside a tool call the
\* strategy catches it
throws(fl, error) ==
  IF fl.tool = Undefined THEN [fl EXCEPT !.pc = "threw", !.thrown = error]
  ELSE respond([fl EXCEPT !.thrown = error], strategyCatch(error))

\* an async function of the flow ends with completion x
finish(fl, x) == IF isThrown(x) THEN throws(fl, x.error) ELSE returns(fl, x)

(* --------------------- RechtspraakCaseLawService: pure ----------------- *)
defaultBaseUrl == <<"https://data.rechtspraak.nl/uitspraken">>
defaultViewUrl == <<"https://uitspraken.rechtspraak.nl">>
DefaultMaxResults == 10

\* String(n) and Number(s) for the max parameter
String(n) == [str |-> n]
Number(str) == str.str

\* buildSearchParams: q, then max, each only when the parameter is truthy
\* (court, dates and subjects are never supplied here)
buildSearchParams(parameters) ==
  (IF parameters.query # "" THEN << <<"q", parameters.query>> >> ELSE <<>>)
  \o (IF parameters.maxResults # 0
      THEN << <<"max", String(parameters.maxResults)>> >> ELSE <<>>)

\* Number(params.max) || 10
requestedMax(params) ==
  LET at == {j \in 1..Len(params) : params[j][1] = "max"}
  IN IF at = {} THEN DefaultMaxResults
     ELSE LET n == Number(params[CHOOSE j \in at : TRUE][2])
          IN IF n = 0 THEN DefaultMaxResults ELSE n

\* variant: an id wrapped in an array is not unwrapped
entryId_NoUnwrap(entry) == entry.id

\* Array.isArray(id) ? id[0] : id
entryId(entry) ==
  IF entry.id.k = "array"
  THEN (IF Len(entry.id.v) > 0 THEN Scalar(entry.id.v[1]) ELSE Absent)
  ELSE entry.id

\* extractECLIsFromFeed: data?.feed?.entry || [], map to the id, filter(Boolean);
\* an entry value that is no array makes map throw, which the catch turns into []
extractECLIsFromFeed(feedData) ==
  IF ~feedData.feed \/ feedData.entry.k = "absent" THEN <<>>
  ELSE IF feedData.entry.k # "array" THEN <<>>
  ELSE LET entries == feedData.entry.v
           ids == [j \in 1..Len(entries) |-> entryId(entries[j])]
           kept == SelectSeq(ids, LAMBDA id : id.k = "scalar" /\ id.v # "")
       IN [j \in 1..Len(kept) |-> kept[j].v]

\* getValue: field[0]._ || String(field[0]) || '' ; String(undefined) is the
\* text 'undefined'
getValue(field) ==
  IF field.k = "array" THEN (IF Len(field.v) > 0 THEN field.v[1] ELSE "undefined")
  ELSE IF field.k = "scalar" THEN field.v
  ELSE "undefined"

\* getArray
getArray(field) ==
  IF field.k = "array" THEN SelectSeq(field.v, LAMBDA item : item # "")
  ELSE IF field.k = "scalar" /\ field.v # "" THEN <<field.v>>
  ELSE <<>>

\* formatDate: new Date(date).toISOString().split('T')[0], given here as
\* [iso |-> text]; toISOString throws a RangeError on an invalid date
IsoDates == ("2023-03-15" :> "2023-03-15") @@ ("2023-03-15T10:30:00Z" :> "2023-03-15")
ParseableDates == DOMAIN IsoDates
formatDate(date) ==
  IF date \in ParseableDates THEN [iso |-> IsoDates[date]]
  ELSE Thrown([name |-> "RangeError", message |-> "Invalid time value",
               statusCode |-> 0, response |-> NoBody])

\* the characters of the texts that occur as names, subjects and search words
Chars ==
  ("" :> <<>>)
  @@ ("undefined" :> <<"u", "n", "d", "e", "f", "i", "n", "e", "d">>)
  @@ ("Unknown Court" :> <<"U", "n", "k", "n", "o", "w", "n", " ", "C", "o", "u", "r", "t">>)
  @@ ("Hoge Raad" :> <<"H", "o", "g", "e", " ", "R", "a", "a", "d">>)
  @@ ("HOGE RAAD" :> <<"H", "O", "G", "E", " ", "R", "A", "A", "D">>)
  @@ ("Gerechtshof Arnhem" :> <<"G", "e", "r", "e", "c", "h", "t", "s", "h", "o", "f", " ", "A", "r", "n", "h", "e", "m">>)
  @@ ("Rechtbank Amsterdam" :> <<"R", "e", "c", "h", "t", "b", "a", "n", "k", " ", "A", "m", "s", "t", "e", "r", "d", "a", "m">>)
  @@ ("Civiel recht" :> <<"C", "i", "v", "i", "e", "l", " ", "r", "e", "c", "h", "t">>)
  @@ ("Europees recht" :> <<"E", "u", "r", "o", "p", "e", "e", "s", " ", "r", "e", "c", "h", "t">>)
  @@ ("Staatsrecht; Grondrechten" :> <<"S", "t", "a", "a", "t", "s", "r", "e", "c", "h", "t", ";", " ", "G", "r", "o", "n", "d", "r", "e", "c", "h", "t", "e", "n">>)
  @@ ("hoge raad" :> <<"h", "o", "g", "e", " ", "r", "a", "a", "d">>)
  @@ ("gerechtshof" :> <<"g", "e", "r", "e", "c", "h", "t", "s", "h", "o", "f">>)
  @@ ("grondrecht" :> <<"g", "r", "o", "n", "d", "r", "e", "c", "h", "t">>)
  @@ ("europees" :> <<"e", "u", "r", "o", "p", "e", "e", "s">>)
  @@ ("ECLI:NL:HR:2023:1" :> <<"E", "C", "L", "I", ":", "N", "L", ":", "H", "R", ":", "2", "0", "2", "3", ":", "1">>)
  @@ ("ECLI:NL:GHARL:2023:2" :> <<"E", "C", "L", "I", ":", "N", "L", ":", "G", "H", "A", "R", "L", ":", "2", "0", "2", "3", ":", "2">>)
  @@ ("ECLI:NL:RBAMS:2023:3" :> <<"E", "C", "L", "I", ":", "N", "L", ":", "R", "B", "A", "M", "S", ":", "2", "0", "2", "3", ":", "3">>)
  @@ ("email" :> <<"e", "m", "a", "i", "l">>)
  @@ ("Health records" :> <<"H", "e", "a", "l", "t", "h", " ", "r", "e", "c", "o", "r", "d", "s">>)
  @@ ("biometric" :> <<"b", "i", "o", "m", "e", "t", "r", "i", "c">>)
  @@ ("health" :> <<"h", "e", "a", "l", "t", "h">>)
  @@ ("genetic" :> <<"g", "e", "n", "e", "t", "i", "c">>)
  @@ ("political" :> <<"p", "o", "l", "i", "t", "i", "c", "a", "l">>)
  @@ ("religious" :> <<"r", "e", "l", "i", "g", "i", "o", "u", "s">>)
  @@ ("ethnic" :> <<"e", "t", "h", "n", "i", "c">>)
  @@ ("sexual" :> <<"s", "e", "x", "u", "a", "l">>)
  @@ ("location" :> <<"l", "o", "c", "a", "t", "i", "o", "n">>)
  @@ ("children" :> <<"c", "h", "i", "l", "d", "r", "e", "n">>)
  @@ ("behavioral" :> <<"b", "e", "h", "a", "v", "i", "o", "r", "a", "l">>)
  @@ ("financial" :> <<"f", "i", "n", "a", "n", "c", "i", "a", "l">>)
  @@ ("privacy" :> <<"p", "r", "i", "v", "a", "c", "y">>)
  @@ (" privacy " :> <<" ", "p", "r", "i", "v", "a", "c", "y", " ">>)
  @@ ("2023" :> <<"2", "0", "2", "3">>)
  @@ ("not-a-url" :> <<"n", "o", "t", "-", "a", "-", "u", "r", "l">>)
  @@ ("newsletter subscription" :> <<"n", "e", "w", "s", "l", "e", "t", "t", "e", "r", " ", "s", "u", "b", "s", "c", "r", "i", "p", "t", "i", "o", "n">>)
  @@ ("consent" :> <<"c", "o", "n", "s", "e", "n", "t">>)
  @@ ("12 months" :> <<"1", "2", " ", "m", "o", "n", "t", "h", "s">>)
  @@ ("AI" :> <<"A", "I">>)
  @@ ("Recruitment screening with CV ranking" :> <<"R", "e", "c", "r", "u", "i", "t", "m", "e", "n", "t", " ", "s", "c", "r", "e", "e", "n", "i", "n", "g", " ", "w", "i", "t", "h", " ", "C", "V", " ", "r", "a", "n", "k", "i", "n", "g">>)
  @@ ("Chatbot for customer support" :> <<"C", "h", "a", "t", "b", "o", "t", " ", "f", "o", "r", " ", "c", "u", "s", "t", "o", "m", "e", "r", " ", "s", "u", "p", "p", "o", "r", "t">>)
  @@ ("Social scoring of citizens" :> <<"S", "o", "c", "i", "a", "l", " ", "s", "c", "o", "r", "i", "n", "g", " ", "o", "f", " ", "c", "i", "t", "i", "z", "e", "n", "s">>)
  @@ ("employment" :> <<"e", "m", "p", "l", "o", "y", "m", "e", "n", "t">>)
  @@ ("retail" :> <<"r", "e", "t", "a", "i", "l">>)
  @@ ("App" :> <<"A", "p", "p">>)
  @@ ("Online store with consumer payments" :> <<"O", "n", "l", "i", "n", "e", " ", "s", "t", "o", "r", "e", " ", "w", "i", "t", "h", " ", "c", "o", "n", "s", "u", "m", "e", "r", " ", "p", "a", "y", "m", "e", "n", "t", "s">>)
  @@ ("AI chatbot for healthcare triage" :> <<"A", "I", " ", "c", "h", "a", "t", "b", "o", "t", " ", "f", "o", "r", " ", "h", "e", "a", "l", "t", "h", "c", "a", "r", "e", " ", "t", "r", "i", "a", "g", "e">>)
  @@ ("eu" :> <<"e", "u">>)
  @@ ("all" :> <<"a", "l", "l">>)
  @@ ("user data" :> <<"u", "s", "e", "r", " ", "d", "a", "t", "a">>)
  @@ ("business" :> <<"b", "u", "s", "i", "n", "e", "s", "s">>)
  @@ ("consumer" :> <<"c", "o", "n", "s", "u", "m", "e", "r">>)
  @@ ("b2c" :> <<"b", "2", "c">>)
  @@ ("international" :> <<"i", "n", "t", "e", "r", "n", "a", "t", "i", "o", "n", "a", "l">>)
  @@ ("finance" :> <<"f", "i", "n", "a", "n", "c", "e">>)
  @@ ("payment" :> <<"p", "a", "y", "m", "e", "n", "t">>)
  @@ ("critical infrastructure" :> <<"c", "r", "i", "t", "i", "c", "a", "l", " ", "i", "n", "f", "r", "a", "s", "t", "r", "u", "c", "t", "u", "r", "e">>)
  @@ ("education" :> <<"e", "d", "u", "c", "a", "t", "i", "o", "n">>)
  @@ ("recruitment" :> <<"r", "e", "c", "r", "u", "i", "t", "m", "e", "n", "t">>)
  @@ ("essential services" :> <<"e", "s", "s", "e", "n", "t", "i", "a", "l", " ", "s", "e", "r", "v", "i", "c", "e", "s">>)
  @@ ("law enforcement" :> <<"l", "a", "w", " ", "e", "n", "f", "o", "r", "c", "e", "m", "e", "n", "t">>)
  @@ ("migration" :> <<"m", "i", "g", "r", "a", "t", "i", "o", "n">>)
  @@ ("justice" :> <<"j", "u", "s", "t", "i", "c", "e">>)
  @@ ("democratic" :> <<"d", "e", "m", "o", "c", "r", "a", "t", "i", "c">>)
  @@ ("healthcare" :> <<"h", "e", "a", "l", "t", "h", "c", "a", "r", "e">>)
  @@ ("safety" :> <<"s", "a", "f", "e", "t", "y">>)
  @@ ("transport" :> <<"t", "r", "a", "n", "s", "p", "o", "r", "t">>)
  @@ ("energy" :> <<"e", "n", "e", "r", "g", "y">>)
  @@ ("water" :> <<"w", "a", "t", "e", "r">>)
  @@ ("credit" :> <<"c", "r", "e", "d", "i", "t">>)
  @@ ("subliminal" :> <<"s", "u", "b", "l", "i", "m", "i", "n", "a", "l">>)
  @@ ("social scoring" :> <<"s", "o", "c", "i", "a", "l", " ", "s", "c", "o", "r", "i", "n", "g">>)
  @@ ("exploit vulnerabilities" :> <<"e", "x", "p", "l", "o", "i", "t", " ", "v", "u", "l", "n", "e", "r", "a", "b", "i", "l", "i", "t", "i", "e", "s">>)
  @@ ("real-time biometric identification" :> <<"r", "e", "a", "l", "-", "t", "i", "m", "e", " ", "b", "i", "o", "m", "e", "t", "r", "i", "c", " ", "i", "d", "e", "n", "t", "i", "f", "i", "c", "a", "t", "i", "o", "n">>)
  @@ ("chatbot" :> <<"c", "h", "a", "t", "b", "o", "t">>)
  @@ ("deepfake" :> <<"d", "e", "e", "p", "f", "a", "k", "e">>)
  @@ ("emotion recognition" :> <<"e", "m", "o", "t", "i", "o", "n", " ", "r", "e", "c", "o", "g", "n", "i", "t", "i", "o", "n">>)
  @@ ("interact with humans" :> <<"i", "n", "t", "e", "r", "a", "c", "t", " ", "w", "i", "t", "h", " ", "h", "u", "m", "a", "n", "s">>)
chars(text) == Chars[text]

\* encodeURIComponent: letters, digits and - _ . ! ~ * ' ( ) stay, every other
\* character becomes its percent escape; the escapes of the ones that occur
Escapes == (":" :> "%3A") @@ ("/" :> "%2F") @@ (" " :> "%20") @@ (";" :> "%3B")
encodeURIComponent(text) ==
  [j \in 1..Len(chars(text)) |->
     IF chars(text)[j] \in DOMAIN Escapes THEN Escapes[chars(text)[j]]
     ELSE chars(text)[j]]

\* String.prototype.toLowerCase, on the letters A to Z
UpperCase ==
  ("A" :> "a") @@ ("B" :> "b") @@ ("C" :> "c") @@ ("D" :> "d") @@ ("E" :> "e")
  @@ ("F" :> "f") @@ ("G" :> "g") @@ ("H" :> "h") @@ ("I" :> "i") @@ ("J" :> "j")
  @@ ("K" :> "k") @@ ("L" :> "l") @@ ("M" :> "m") @@ ("N" :> "n") @@ ("O" :> "o")
  @@ ("P" :> "p") @@ ("Q" :> "q") @@ ("R" :> "r") @@ ("S" :> "s") @@ ("T" :> "t")
  @@ ("U" :> "u") @@ ("V" :> "v") @@ ("W" :> "w") @@ ("X" :> "x") @@ ("Y" :> "y")
  @@ ("Z" :> "z")
toLowerCase(cs) ==
  [j \in 1..Len(cs) |-> IF cs[j] \in DOMAIN UpperCase THEN UpperCase[cs[j]] ELSE cs[j]]

\* String.prototype.includes
includes(cs, part) ==
  \E from \in 0..(Len(cs) - Len(part)) : SubSeq(cs, from + 1, from + Len(part)) = part

\* variant: the names are compared as they are written
determinePrecedentValue_CaseSensitive(court, subjects) ==
  IF includes(chars(court), chars("hoge raad")) THEN "high"
  ELSE IF includes(chars(court), chars("gerechtshof")) THEN "medium"
  ELSE IF \E j \in 1..Len(subjects) :
            \/ includes(chars(subjects[j]), chars("grondrecht"))
            \/ includes(chars(subjects[j]), chars("europees"))
  THEN "medium"
  ELSE "low"

\* determinePrecedentValue
determinePrecedentValue(court, subjects) ==
  LET courtLower == toLowerCase(chars(court))
      hasHighValueSubject ==
        \E j \in 1..Len(subjects) :
          \/ includes(toLowerCase(chars(subjects[j])), chars("grondrecht"))
          \/ includes(toLowerCase(chars(subjects[j])), chars("europees"))
  IN IF includes(courtLower, chars("hoge raad")) THEN "high"
     ELSE IF includes(courtLower, chars("gerechtshof")) THEN "medium"
     ELSE IF hasHighValueSubject THEN "medium"
     ELSE "low"

\* x || fallback for a string
orElse(x, fallback) == IF x = "" THEN fallback ELSE x

\* parseRDFEntry
parseRDFEntry(rdf) ==
  LET ecli == orElse(getValue(rdf.identifier), "")
      court == orElse(getValue(rdf.creator), "Unknown Court")
      date == formatDate(orElse(getValue(rdf.date), ""))
      subjects == getArray(rdf.subject)
      caseNumber == orElse(getValue(rdf.zaaknummer), "")
  IN IF isThrown(date) THEN date
     ELSE [ecli |-> ecli, title |-> <<ecli, " - ", court>>, court |-> court,
           date |-> date.iso, subjects |-> subjects,
           precedentValue |-> determinePrecedentValue(court, subjects),
           url |-> defaultViewUrl \o <<"/inziendocument?id=">> \o encodeURIComponent(ecli),
           caseNumber |-> caseNumber]

\* variant: a document without the root container maps to an empty record
parseContentResponse_Lenient(xmlData) ==
  IF ~xmlData.root
  THEN [ecli |-> "", title |-> <<"", " - ", "Unknown Court">>, court |-> "Unknown Court",
        date |-> "", subjects |-> <<>>, precedentValue |-> "low",
        url |-> defaultViewUrl \o <<"/inziendocument?id=">> \o encodeURIComponent(""),
        caseNumber |-> ""]
  ELSE parseRDFEntry(xmlData.rdf)

\* parseContentResponse: the root container must be there; errors are rethrown
parseContentResponse(xmlData) ==
  IF ~xmlData.root THEN Thrown(PlainError("Invalid content response format"))
  ELSE parseRDFEntry(xmlData.rdf)

\* getDetails after `await contentClient.getXML(...)`
getDetailsAfter(response) ==
  IF ~response.success \/ ~truthyData(response.data)
  THEN Thrown(PlainError(orElse(response.error, "Failed to get case details")))
  ELSE parseContentResponse(response.data)

(* ----------------------- GDPRComplianceServiceImpl --------------------- *)
SENSITIVE_DATA_TYPES ==
  <<"biometric", "health", "genetic", "political", "religious", "ethnic", "sexual">>
HIGH_RISK_DATA_TYPES == <<"location", "children", "behavioral", "financial">>

\* list.some(s => type.toLowerCase().includes(s))
someIncluded(list, type) ==
  \E j \in 1..Len(list) : includes(toLowerCase(chars(type)), chars(list[j]))

\* calculateGDPRRisk, the forEach over dataTypes: 30 for a sensitive type, 20
\* for a high-risk type, 10 for any other
RECURSIVE typesRisk(_)
typesRisk(dataTypes) ==
  IF dataTypes = <<>> THEN 0
  ELSE typesRisk(Tail(dataTypes))
       + (IF someIncluded(SENSITIVE_DATA_TYPES, Head(dataTypes)) THEN 30
          ELSE IF someIncluded(HIGH_RISK_DATA_TYPES, Head(dataTypes)) THEN 20
          ELSE 10)

\* calculateGDPRRisk
calculateGDPRRisk(dataTypes, params) ==
  min(typesRisk(dataTypes)
        + (IF truthy(prop(params, "thirdPartySharing")) THEN 20 ELSE 0)
        + (IF ~truthy(prop(params, "legalBasis")) THEN 15 ELSE 0)
        + (IF ~truthy(prop(params, "dataRetention")) THEN 10 ELSE 0),
      100)

\* RISK_THRESHOLDS.GDPR
GDPR_LOW == 30
GDPR_MEDIUM == 60
GDPR_HIGH == 80

\* variant: each threshold names the level it starts
getRiskLevel_ByName(score) ==
  IF score >= GDPR_HIGH THEN "high"
  ELSE IF score >= GDPR_MEDIUM THEN "medium"
  ELSE "low"

\* getRiskLevel
getRiskLevel(score) ==
  IF score >= GDPR_HIGH THEN "critical"
  ELSE IF score >= GDPR_MEDIUM THEN "high"
  ELSE IF score >= GDPR_LOW THEN "medium"
  ELSE "low"

\* identifyViolations (the description and remedy texts are left out)
identifyViolations(params) ==
  (IF ~truthy(prop(params, "legalBasis"))
   THEN <<[code |-> "GDPR-Art6", severity |-> "major"]>> ELSE <<>>)
  \o (IF ~truthy(prop(params, "dataRetention"))
      THEN <<[code |-> "GDPR-Art5", severity |-> "minor"]>> ELSE <<>>)

\* generateRecommendations
generateRecommendations(riskLevel, violations) ==
  (IF riskLevel \in {"critical", "high"}
   THEN <<"Conduct Data Protection Impact Assessment (DPIA)",
          "Consult with Data Protection Officer (DPO)">>
   ELSE <<>>)
  \o <<"Implement privacy by design principles",
       "Document all processing activities (Article 30)",
       "Establish data subject rights procedures">>
  \o (IF Len(violations) > 0
      THEN <<"Address identified compliance violations immediately">> ELSE <<>>)

\* Math.max(0, n)
max0(n) == IF n < 0 THEN 0 ELSE n

\* assessGDPR(request): request is [id, query, parameters]; dataTypes that
\* are not an array make forEach fail
assessGDPR(request) ==
  LET params == request.parameters
      given == prop(params, "dataTypes")
      dataTypes == IF truthy(given) THEN given.v ELSE <<>>
      riskScore == calculateGDPRRisk(dataTypes, params)
      riskLevel == getRiskLevel(riskScore)
      violations == identifyViolations(params)
  IN IF truthy(given) /\ given.t # "array"
     THEN Thrown(TypeError("dataTypes.forEach is not a function"))
     ELSE [requestId |-> request.id, riskLevel |-> riskLevel,
           score |-> max0(100 - riskScore), violations |-> violations,
           recommendations |-> generateRecommendations(riskLevel, violations),
           metadata |-> [dataTypes |-> dataTypes,
                         processingPurpose |-> prop(params, "processingPurpose"),
                         assessmentType |-> "gdpr"]]

(* ----------------------- the AI Act classification --------------------- *)
AI_RISK_HIGH ==
  <<"biometric", "critical infrastructure", "education", "employment", "recruitment",
    "essential services", "law enforcement", "migration", "justice", "democratic",
    "healthcare", "safety", "transport", "energy", "water", "finance", "credit">>
AI_RISK_PROHIBITED ==
  <<"subliminal", "social scoring", "exploit vulnerabilities",
    "real-time biometric identification">>
AI_RISK_LIMITED == <<"chatbot", "deepfake", "emotion recognition", "interact with humans">>

\* classifyAISystem: description is a string, domain a string or undefined
classifyAISystem(description, domain) ==
  LET desc == toLowerCase(chars(description))
      dom == IF domain.t = "string" THEN toLowerCase(chars(domain.v)) ELSE <<>>
  IN IF \E j \in 1..Len(AI_RISK_PROHIBITED) : includes(desc, chars(AI_RISK_PROHIBITED[j]))
     THEN "unacceptable"
     ELSE IF \E j \in 1..Len(AI_RISK_HIGH) :
               \/ includes(dom, chars(AI_RISK_HIGH[j]))
               \/ includes(desc, chars(AI_RISK_HIGH[j]))
     THEN "high"
     ELSE IF \E j \in 1..Len(AI_RISK_LIMITED) : includes(desc, chars(AI_RISK_LIMITED[j]))
     THEN "limited"
     ELSE "minimal"

\* calculateAIActRisk
calculateAIActRisk(riskCategory) ==
  CASE riskCategory = "unacceptable" -> 100
    [] riskCategory = "high" -> 80
    [] riskCategory = "limited" -> 40
    [] riskCategory = "minimal" -> 20
    [] OTHER -> 50

\* generateAIActRecommendations
generateAIActRecommendations(riskCategory) ==
  CASE riskCategory = "unacceptable" ->
         <<"System is prohibited under EU AI Act - discontinue development">>
    [] riskCategory = "high" ->
         <<"Conduct conformity assessment", "Implement risk management system",
           "Ensure human oversight measures", "Prepare technical documentation",
           "CE marking required">>
    [] riskCategory = "limited" ->
         <<"Implement transparency measures", "Inform users about AI interaction",
           "Document system capabilities and limitations">>
    [] OTHER ->
         <<"Monitor regulatory developments", "Consider voluntary compliance measures">>

\* assessAIAct(request)
assessAIAct(request) ==
  LET params == request.parameters
      riskCategory == classifyAISystem(request.query, prop(params, "applicationDomain"))
      riskScore == calculateAIActRisk(riskCategory)
  IN [requestId |-> request.id, riskLevel |-> getRiskLevel(riskScore),
      score |-> max0(100 - riskScore), violations |-> <<>>,
      recommendations |-> generateAIActRecommendations(riskCategory),
      metadata |-> [riskCategory |-> riskCategory, systemDescription |-> request.query,
                    applicationDomain |-> prop(params, "applicationDomain"),
                    assessmentType |-> "ai-act"]]

(* ------------------------- RiskAnalysisServiceImpl --------------------- *)
\* calculateOverallRisk: aiActRisk is Null when there is none
calculateOverallRisk(gdprRisk, aiActRisk) ==
  LET risks == {gdprRisk.riskLevel}
               \cup (IF aiActRisk = Null THEN {} ELSE {aiActRisk.riskLevel})
  IN IF "critical" \in risks THEN "critical"
     ELSE IF "high" \in risks THEN "high"
     ELSE IF "medium" \in risks THEN "medium"
     ELSE "low"

\* assessContractualRisks: targetMarket is a string or undefined
assessContractualRisks(businessDescription, targetMarket) ==
  LET desc == toLowerCase(chars(businessDescription))
      market == IF targetMarket.t = "string" THEN chars(targetMarket.v) ELSE <<>>
  IN (IF includes(desc, chars("consumer")) \/ includes(desc, chars("b2c"))
      THEN <<"Consumer protection law compliance required">> ELSE <<>>)
     \o (IF targetMarket.t = "string"
            /\ (includes(market, chars("eu")) \/ includes(market, chars("international")))
         THEN <<"Cross-border regulatory compliance">> ELSE <<>>)
     \o (IF includes(desc, chars("finance")) \/ includes(desc, chars("payment"))
         THEN <<"Financial services regulation (AFM)">> ELSE <<>>)

\* generateUrgentActions
generateUrgentActions(overallRisk, gdprRisk, aiActRisk) ==
  LET actions ==
        (IF overallRisk = "critical"
         THEN <<"Immediate legal counsel consultation required",
                "Consider suspending operations until compliance verified">>
         ELSE <<>>)
        \o (IF gdprRisk.riskLevel \in {"high", "critical"}
            THEN <<"GDPR compliance audit within 30 days">> ELSE <<>>)
        \o (IF aiActRisk # Null /\ aiActRisk.riskLevel = "high"
            THEN <<"EU AI Act conformity assessment required">> ELSE <<>>)
  IN IF Len(actions) = 0 THEN <<"Regular compliance monitoring recommended">> ELSE actions

\* analyze(request): the GDPR assessment of the default data types overlaid
\* with params.dataProcessing, the AI Act assessment when params.aiComponents
analyze(request) ==
  LET params == request.parameters
      dataProcessing == prop(params, "dataProcessing")
      targetMarket == prop(params, "targetMarket")
      spread == IF dataProcessing.t = "object" THEN dataProcessing.v ELSE <<>>
      gdprRisk ==
        assessGDPR([id |-> request.id, query |-> request.query,
                    parameters |-> Obj(spread
                                       @@ [dataTypes |-> List(<<"email", "user data">>),
                                           processingPurpose |-> Str(request.query)])])
      aiActRisk ==
        IF truthy(prop(params, "aiComponents"))
        THEN assessAIAct([id |-> request.id, query |-> request.query,
                          parameters |->
                            Obj([systemDescription |-> Str(request.query),
                                 applicationDomain |->
                                   IF truthy(targetMarket) THEN targetMarket
                                   ELSE Str("business")])])
        ELSE Null
      overallRisk == calculateOverallRisk(gdprRisk, aiActRisk)
  IN IF isThrown(gdprRisk) THEN gdprRisk
     ELSE [overallRisk |-> overallRisk, gdprRisk |-> gdprRisk, aiActRisk |-> aiActRisk,
           contractualRisks |-> assessContractualRisks(request.query, targetMarket),
           urgentActions |-> generateUrgentActions(overallRisk, gdprRisk, aiActRisk)]

(* ------------------------------ DPAServiceImpl ------------------------- *)
mockUpdates ==
  <<[id |-> "dpa-mock-001",
     title |-> "[SAMPLE] New Guidelines on AI System Data Processing",
     date |-> "2025-01-15", category |-> "guidance", summary |-> "[MOCK DATA] 1",
     impact |-> "high",
     url |-> "https://autoriteitpersoonsgegevens.nl/nl/onderwerpen/artificial-intelligence-ai"],
    [id |-> "dpa-mock-002",
     title |-> "[SAMPLE] Record 4.75M Fine for Discriminatory Algorithm Use",
     date |-> "2025-01-10", category |-> "fine", summary |-> "[MOCK DATA] 2",
     impact |-> "high",
     url |-> "https://autoriteitpersoonsgegevens.nl/nl/nieuws/boete-fraudedetectie"]>>

\* Array.prototype.slice(0, n) for n >= 0
slice0(list, n) == SubSeq(list, 1, min(n, Len(list)))

\* getUpdates(category, limit)
getUpdates(category, limit) ==
  slice0(IF category = "all" THEN mockUpdates
         ELSE SelectSeq(mockUpdates, LAMBDA u : u.category = category),
         limit)

(* ------------------------------- validation --------------------------- *)
\* the message of zod's invalid_type issue; every message is a text built
\* from pieces
invalidType(expected, x) ==
  IF x.t = "undefined" THEN <<"Required">>
  ELSE <<"Expected ", expected, ", received ", x.t>>

\* schema.optional(): undefined passes, any other value goes to the schema
optional(x, issues) == IF x.t = "undefined" THEN <<>> ELSE issues

\* z.string() followed by its checks; the checks look at strings only
zString(x, checks) == IF x.t # "string" THEN <<invalidType("string", x)>> ELSE checks

\* .min(n, message) of a string
zMin(x, n, message) ==
  IF x.t = "string" /\ Len(chars(x.v)) < n THEN << <<message>> >> ELSE <<>>

\* .regex(/^\d{4}-\d{2}-\d{2}$/, message)
Digits == {"0", "1", "2", "3", "4", "5", "6", "7", "8", "9"}
zDate(x, message) ==
  LET cs == chars(x.v)
  IN IF x.t = "string"
        /\ ~(/\ Len(cs) = 10
             /\ \A j \in {1, 2, 3, 4, 6, 7, 9, 10} : cs[j] \in Digits
             /\ cs[5] = "-" /\ cs[8] = "-")
     THEN << <<message>> >> ELSE <<>>

\* .url(message): the text must parse as an absolute URL, which starts with
\* a scheme of letters and a colon
Letters == DOMAIN UpperCase \cup {UpperCase[c] : c \in DOMAIN UpperCase}
zUrl(x, message) ==
  LET cs == chars(x.v)
  IN IF x.t = "string"
        /\ ~\E k \in 2..Len(cs) : cs[k] = ":" /\ \A j \in 1..(k - 1) : cs[j] \in Letters
     THEN << <<message>> >> ELSE <<>>

\* z.number().min(lo).max(hi)
zNumber(x, lo, hi) ==
  IF x.t # "number" THEN <<invalidType("number", x)>>
  ELSE (IF x.v < lo THEN << <<"Number must be greater than or equal to ", lo>> >> ELSE <<>>)
       \o (IF x.v > hi THEN << <<"Number must be less than or equal to ", hi>> >> ELSE <<>>)

\* z.boolean()
zBoolean(x) == IF x.t # "boolean" THEN <<invalidType("boolean", x)>> ELSE <<>>

\* z.record(z.unknown())
zRecord(x) == IF x.t # "object" THEN <<invalidType("object", x)>> ELSE <<>>

\* z.array(z.string()).min(n, message); the arrays that occur hold strings
zStrings(x, n, message) ==
  IF x.t # "array" THEN <<invalidType("array", x)>>
  ELSE IF Len(x.v) < n THEN << <<message>> >> ELSE <<>>

\* z.enum(values)
zEnum(x, values) ==
  IF x.t # "string" THEN <<invalidType(values, x)>>
  ELSE IF \A j \in 1..Len(values) : values[j] # x.v
  THEN << <<"Invalid enum value. Expected ", values, ", received ", x.v>> >>
  ELSE <<>>

\* z.object(shape): the issues of the keys in the order of the shape
zObject(args, issues) ==
  IF args.t # "object" THEN <<invalidType("object", args)>> ELSE issues

\* the parsed object: the keys of the shape that have a value; keys the shape
\* does not know are stripped
parsed(values) ==
  Obj([k \in {key \in DOMAIN values : values[key].t # "undefined"} |-> values[k]])

\* x.default(d)
orDefault(x, d) == IF x.t = "undefined" THEN d ELSE x

\* String.prototype.trim: the text without the blanks at either end
RECURSIVE trimStart(_)
trimStart(cs) == IF cs # <<>> /\ Head(cs) = " " THEN trimStart(Tail(cs)) ELSE cs
RECURSIVE trimEnd(_)
trimEnd(cs) ==
  IF cs # <<>> /\ cs[Len(cs)] = " " THEN trimEnd(SubSeq(cs, 1, Len(cs) - 1)) ELSE cs
trim(text) == CHOOSE t \in DOMAIN Chars : Chars[t] = trimEnd(trimStart(chars(text)))

\* schema.safeParse(args), given the issues and the parsed object
safeParse(issues, data) ==
  IF issues = <<>> THEN [success |-> TRUE, data |-> data]
  ELSE [success |-> FALSE, issues |-> issues]

\* CaseLawSearchSchema.safeParse(args): LegalRequestSchema's keys, then its own
CaseLawSearchSchema(args) ==
  LET at(k) == prop(args, k)
      value(k) == CASE k = "query" -> Str(trim(at(k).v))
                    [] k = "parameters" -> orDefault(at(k), Obj(<<>>))
                    [] k = "maxResults" -> orDefault(at(k), Num(DefaultMaxResults))
                    [] OTHER -> at(k)
  IN safeParse(
       zObject(args,
               zString(at("query"), zMin(at("query"), 1, "Query is required"))
               \o optional(at("parameters"), zRecord(at("parameters")))
               \o optional(at("court"), zString(at("court"), <<>>))
               \o optional(at("dateFrom"),
                           zString(at("dateFrom"), zDate(at("dateFrom"), "Invalid date format")))
               \o optional(at("dateTo"),
                           zString(at("dateTo"), zDate(at("dateTo"), "Invalid date format")))
               \o optional(at("maxResults"), zNumber(at("maxResults"), 1, 50))
               \o optional(at("subject"), zStrings(at("subject"), 0, ""))
               \o optional(at("baseUrl"),
                           zString(at("baseUrl"), zUrl(at("baseUrl"), "Invalid URL format")))),
       parsed([k \in {"query", "parameters", "court", "dateFrom", "dateTo", "maxResults", "subject", "baseUrl"} |->
                 value(k)]))

\* GDPRComplianceSchema.safeParse(args)
GDPRComplianceSchema(args) ==
  LET at(k) == prop(args, k)
      value(k) == IF k = "thirdPartySharing" THEN orDefault(at(k), Bool(FALSE)) ELSE at(k)
  IN safeParse(
       zObject(args,
               zStrings(at("dataTypes"), 1, "At least one data type is required")
               \o zString(at("processingPurpose"),
                          zMin(at("processingPurpose"), 1, "Processing purpose is required"))
               \o optional(at("legalBasis"), zString(at("legalBasis"), <<>>))
               \o optional(at("dataRetention"), zString(at("dataRetention"), <<>>))
               \o optional(at("thirdPartySharing"), zBoolean(at("thirdPartySharing")))),
       parsed([k \in {"dataTypes", "processingPurpose", "legalBasis", "dataRetention", "thirdPartySharing"} |->
                 value(k)]))

\* AIActClassificationSchema.safeParse(args)
AIActClassificationSchema(args) ==
  LET at(k) == prop(args, k)
  IN safeParse(
       zObject(args,
               zString(at("systemDescription"),
                       zMin(at("systemDescription"), 10, "System description too short"))
               \o zString(at("applicationDomain"),
                          zMin(at("applicationDomain"), 1, "Application domain is required"))
               \o optional(at("userImpact"), zString(at("userImpact"), <<>>))
               \o optional(at("dataTypes"), zStrings(at("dataTypes"), 0, ""))),
       parsed([k \in {"systemDescription", "applicationDomain", "userImpact", "dataTypes"} |->
                 at(k)]))

\* RiskAnalysisSchema.safeParse(args)
RiskAnalysisSchema(args) ==
  LET at(k) == prop(args, k)
      value(k) == IF k = "aiComponents" THEN orDefault(at(k), Bool(FALSE)) ELSE at(k)
  IN safeParse(
       zObject(args,
               zString(at("businessDescription"),
                       zMin(at("businessDescription"), 10, "Business description too short"))
               \o optional(at("dataProcessing"), zRecord(at("dataProcessing")))
               \o optional(at("aiComponents"), zBoolean(at("aiComponents")))
               \o optional(at("targetMarket"), zString(at("targetMarket"), <<>>))),
       parsed([k \in {"businessDescription", "dataProcessing", "aiComponents", "targetMarket"} |->
                 value(k)]))

\* DPAUpdatesSchema.safeParse(args)
DpaCategories == <<"all", "guidance", "fines", "rulings", "updates">>
DPAUpdatesSchema(args) ==
  LET at(k) == prop(args, k)
      value(k) == IF k = "category" THEN orDefault(at(k), Str("all"))
                  ELSE orDefault(at(k), Num(10))
  IN safeParse(
       zObject(args,
               optional(at("category"), zEnum(at("category"), DpaCategories))
               \o optional(at("limit"), zNumber(at("limit"), 1, 20))),
       parsed([k \in {"category", "limit"} |->
                 value(k)]))

\* issues.map(i => i.message).join(', ')
RECURSIVE joinMessages(_)
joinMessages(issues) ==
  IF Len(issues) = 1 THEN issues[1]
  ELSE issues[1] \o <<", ">> \o joinMessages(Tail(issues))

\* safeValidate(schema)(data), given schema.safeParse(data)
safeValidate(result) ==
  IF result.success THEN [success |-> TRUE, data |-> result.data]
  ELSE [success |-> FALSE, error |-> joinMessages(result.issues)]

(* ------------------------------- use cases ----------------------------- *)
TOKENS ==
  [COMPLIANCE_SERVICE |-> Token("symbol", "ComplianceService"),
   CASE_LAW_SERVICE |-> Token("symbol", "CaseLawService"),
   RISK_ANALYSIS_SERVICE |-> Token("symbol", "RiskAnalysisService"),
   DPA_SERVICE |-> Token("symbol", "DPAService"),
   API_CLIENT |-> Token("symbol", "ApiClient"),
   TOOL_REGISTRY |-> Token("symbol", "ToolRegistry")]

\* the two ways the compiler turns `@withErrorHandling` on a method into code.
\* With the legacy decorator emit the helper receives withErrorHandling's
\* result, a function, where it expects a property descriptor, and defining
\* the property from it changes nothing: the method runs as written. With the
\* standard decorator emit the method is replaced by the wrapper, which calls
\* the method without its receiver.
Builds == {"legacy", "standard"}

\* the wrapper of the standard emit: `this` is undefined in the method, whose
\* first statement reads this.container
decorated ==
  withErrorHandling(
    Thrown(TypeError("Cannot read properties of undefined (reading 'container')")))

\* the token a tool's use case resolves
tokenOf(name) ==
  CASE name = "search_dutch_case_law" -> TOKENS.CASE_LAW_SERVICE
    [] name = "check_gdpr_compliance" -> TOKENS.COMPLIANCE_SERVICE
    [] name = "classify_ai_system" -> TOKENS.COMPLIANCE_SERVICE
    [] name = "analyze_legal_risk" -> TOKENS.RISK_ANALYSIS_SERVICE
    [] name = "get_dpa_updates" -> TOKENS.DPA_SERVICE

\* a tool's validation: safeValidate(XSchema)(args)
validationOf(name, args) ==
  CASE name = "search_dutch_case_law" -> safeValidate(CaseLawSearchSchema(args))
    [] name = "check_gdpr_compliance" -> safeValidate(GDPRComplianceSchema(args))
    [] name = "classify_ai_system" -> safeValidate(AIActClassificationSchema(args))
    [] name = "analyze_legal_risk" -> safeValidate(RiskAnalysisSchema(args))
    [] name = "get_dpa_updates" -> safeValidate(DPAUpdatesSchema(args))

\* the use cases that end without waiting for anything, from the service
\* call on: the request built from the validated data, handed to the service
GDPRComplianceUseCase(criteria) ==
  assessGDPR([id |-> "gdpr-1", query |-> prop(criteria, "processingPurpose").v,
              parameters |-> criteria])
AIActClassificationUseCase(criteria) ==
  assessAIAct([id |-> "ai-act-1", query |-> prop(criteria, "systemDescription").v,
               parameters |-> criteria])
RiskAnalysisUseCase(businessDescription, parameters) ==
  analyze([id |-> "risk-1", query |-> businessDescription, parameters |-> parameters])
DPAUpdatesUseCase(category, limit) == getUpdates(category, limit)

\* the strategy's call of its use case, for the three whose service can throw
useCaseOf(name, data) ==
  CASE name = "check_gdpr_compliance" -> GDPRComplianceUseCase(data)
    [] name = "classify_ai_system" -> AIActClassificationUseCase(data)
    [] name = "analyze_legal_risk" ->
         RiskAnalysisUseCase(prop(data, "businessDescription").v,
                             Obj([dataProcessing |-> prop(data, "dataProcessing"),
                                  aiComponents |-> prop(data, "aiComponents"),
                                  targetMarket |-> prop(data, "targetMarket")]))

(* ------------------------- ApiClient: transport ------------------------ *)
\* requestFn: timeout(this.client.get(url, config), HTTP_CONFIG.TIMEOUT); a
\* request leaves the process only when its target resolves
requestFn(fl, baseURL) ==
  [fl EXCEPT !.pc = "inflight",
             !.lastError = NoError,
             !.attempts = @ + 1,
             !.wire = @ + (IF validTarget(baseURL, fl.url) THEN 1 ELSE 0),
             !.open = @ + (IF validTarget(baseURL, fl.url) THEN 1 ELSE 0)]

\* variant: get's catch block rethrows
getCatch_Rethrow(error) == Thrown(error)

\* get's catch block: return this.handleError(error)
getCatch(error) == handleError(error)

\* post's catch block: return this.handleError(error)
postCatch(error) == handleError(error)

\* getXML's catch block: return this.handleError(error)
getXMLCatch(error) == handleError(error)

\* parseXMLAsync = promisify(xml2js parseString): a text that is blank after
\* trim() ends the parse at once with the result null and no error; any other
\* text that is not well-formed rejects; a document resolves to its tree
parseXMLAsync(data) ==
  IF data.text \in BlankTexts THEN NoTree
  ELSE IF ~data.wellFormed THEN Thrown(PlainError("Unclosed root tag"))
  ELSE data.tree

\* variant: a payload that does not parse counts as an empty document
getXMLAfter_EmptyOnParseError(r) ==
  IF isThrown(r) THEN getXMLCatch(r.error)
  ELSE IF ~r.success \/ ~truthyData(r.data)
  THEN getXMLCatch(PlainError("Failed to fetch XML data"))
  ELSE IF isThrown(parseXMLAsync(r.data)) THEN Success(OtherTree)
  ELSE Success(parseXMLAsync(r.data))

\* getXML after `await this.get(...)`, r being how get ended: throw on a
\* failed or empty response, parse the rest; all of it inside getXML's try
getXMLAfter(r) ==
  IF isThrown(r) THEN getXMLCatch(r.error)
  ELSE IF ~r.success \/ ~truthyData(r.data)
  THEN getXMLCatch(PlainError("Failed to fetch XML data"))
  ELSE IF isThrown(parseXMLAsync(r.data)) THEN getXMLCatch(parseXMLAsync(r.data).error)
  ELSE Success(parseXMLAsync(r.data))

\* variant: a search that collected no record throws
loop_ThrowEmpty(fl) ==
  IF fl.i < fl.maxResults THEN [fl EXCEPT !.pc = "nextDetail"]
  ELSE IF fl.cases = <<>>
  THEN throws(fl, PlainError("No cases found"))
  ELSE returns(fl, fl.cases)

\* search: the test of the for loop, and the return after it
loop(fl) ==
  IF fl.i < fl.maxResults THEN [fl EXCEPT !.pc = "nextDetail"]
  ELSE returns(fl, fl.cases)

\* variant: a failed search call counts as a search without hits
searchAfter_Swallow(fl, searchResponse) ==
  IF isThrown(searchResponse) THEN finish(fl, searchResponse)
  ELSE IF ~searchResponse.success \/ ~truthyData(searchResponse.data)
  THEN loop([fl EXCEPT !.stage = "detail", !.eclis = <<>>, !.i = 0, !.cases = <<>>,
                       !.maxResults = 0])
  ELSE LET eclis == extractECLIsFromFeed(searchResponse.data)
       IN loop([fl EXCEPT !.stage = "detail", !.eclis = eclis, !.i = 0, !.cases = <<>>,
                          !.maxResults = min(Len(eclis), requestedMax(fl.params))])

\* variant: an answer without a list of entries is an error
searchAfter_NeedsEntries(fl, searchResponse) ==
  IF isThrown(searchResponse) THEN finish(fl, searchResponse)
  ELSE IF ~searchResponse.success \/ ~truthyData(searchResponse.data)
  THEN finish(fl, Thrown(PlainError(orElse(searchResponse.error, "Failed to search cases"))))
  ELSE IF ~searchResponse.data.feed \/ searchResponse.data.entry.k # "array"
  THEN finish(fl, Thrown(PlainError("Invalid search response format")))
  ELSE LET eclis == extractECLIsFromFeed(searchResponse.data)
       IN loop([fl EXCEPT !.stage = "detail", !.eclis = eclis, !.i = 0, !.cases = <<>>,
                          !.maxResults = min(Len(eclis), requestedMax(fl.params))])

\* search after `await searchClient.getXML(...)`
searchAfter(fl, searchResponse) ==
  IF isThrown(searchResponse) THEN finish(fl, searchResponse)
  ELSE IF ~searchResponse.success \/ ~truthyData(searchResponse.data)
  THEN finish(fl, Thrown(PlainError(orElse(searchResponse.error, "Failed to search cases"))))
  ELSE LET eclis == extractECLIsFromFeed(searchResponse.data)
       IN loop([fl EXCEPT !.stage = "detail", !.eclis = eclis, !.i = 0, !.cases = <<>>,
                          !.maxResults = min(Len(eclis), requestedMax(fl.params))])

\* variant: the newest record goes to the front of the list
detailDone_Unshift(fl, caseDetail) ==
  IF isThrown(caseDetail) THEN loop([fl EXCEPT !.i = @ + 1])
  ELSE loop([fl EXCEPT !.cases = <<caseDetail>> \o @, !.i = @ + 1])

\* variant: a failed detail fetch ends the search
detailDone_Abort(fl, caseDetail) ==
  IF isThrown(caseDetail) THEN finish(fl, caseDetail)
  ELSE loop([fl EXCEPT !.cases = Append(@, caseDetail), !.i = @ + 1])

\* search, body of the for loop after `await this.getDetails(...)`: push the
\* record, or log the error, then i++
detailDone(fl, caseDetail) ==
  IF isThrown(caseDetail) THEN loop([fl EXCEPT !.i = @ + 1])
  ELSE loop([fl EXCEPT !.cases = Append(@, caseDetail), !.i = @ + 1])

\* get ends with r: the code awaiting it resumes
resume(fl, r) ==
  CASE fl.op = "get" -> finish(fl, r)
    [] fl.op = "getXML" -> finish([fl EXCEPT !.inner = r], getXMLAfter(r))
    [] fl.op = "getDetails" ->
         finish([fl EXCEPT !.inner = r],
                IF isThrown(getXMLAfter(r)) THEN getXMLAfter(r)
                ELSE getDetailsAfter(getXMLAfter(r)))
    [] fl.op = "search" /\ fl.stage = "search" ->
         searchAfter([fl EXCEPT !.inner = r, !.searched = getXMLAfter(r)], getXMLAfter(r))
    [] fl.op = "search" /\ fl.stage = "detail" ->
         LET caseDetail == IF isThrown(getXMLAfter(r)) THEN getXMLAfter(r)
                           ELSE getDetailsAfter(getXMLAfter(r))
         IN detailDone([fl EXCEPT !.inner = r, !.settled = Append(@, caseDetail)],
                       caseDetail)
    [] OTHER -> fl

\* what the lookup met (kept per call for the properties, with the entry
\* when it is within the TTL): no entry, one within the TTL, an older one
age(cm, cacheKey, t) ==
  IF cacheKey \notin DOMAIN cm THEN "miss"
  ELSE IF t - cm[cacheKey].timestamp <= CACHE_TTL THEN "fresh" ELSE "expired"

\* the records of a transport call, cleared when the next one starts
cleared(fl) ==
  [fl EXCEPT !.retryCount = 0, !.attempts = 0, !.wire = 0, !.open = 0,
             !.delays = <<>>,
             !.lookup = "none", !.seen = NoHeld, !.stored = NoHeld,
             !.lastError = NoError, !.inner = Null]

\* ApiClient.get up to its first await, on client c of the instances is:
\* key, cache lookup, first attempt
beginGet(is, fl, c, url, params, t) ==
  LET cacheKey == getCacheKey(url, params)
      cm == is[c].cache
      cached == getCachedResponse(cm, cacheKey, t)
      started == [cleared(fl) EXCEPT !.inst = c, !.url = url, !.params = params,
                                     !.lookup = age(cm, cacheKey, t),
                                     !.seen = IF age(cm, cacheKey, t) = "fresh"
                                              THEN held(cm, cacheKey) ELSE NoHeld]
  IN [insts |-> [is EXCEPT ![c].cache = cached.cache],
      flow |-> IF cached.response # Null
               THEN resume(started, cached.response)
               ELSE requestFn(started, is[c].baseURL)]

\* retryRequest, catch branch: rethrow to get's catch, or schedule the next
\* attempt after the backoff delay
retryRequest(fl, error) ==
  IF fl.retryCount >= maxRetries
  THEN resume([fl EXCEPT !.lastError = error], getCatch(error))
  ELSE IF ~shouldRetry(error)
  THEN resume([fl EXCEPT !.lastError = error], getCatch(error))
  ELSE [fl EXCEPT !.pc = "backoff", !.lastError = error,
                  !.delays = Append(@, retryDelay(fl.retryCount))]

\* variant: no timeout around the request, so the wrapper's rejection never
\* reaches anyone
caught_NoTimeout(fl, error) ==
  IF error.name = "Error" THEN fl
  ELSE IF fl.op = "post"
  THEN finish([fl EXCEPT !.lastError = error], postCatch(error))
  ELSE retryRequest(fl, error)

\* a rejected attempt reaches the code that awaits it
caught(fl, error) ==
  IF fl.op = "post"
  THEN finish([fl EXCEPT !.lastError = error], postCatch(error))
  ELSE retryRequest(fl, error)

\* client.get(url, {params})
Get(f, c, url, params) ==
  /\ ready(f)
  /\ c \in 1..Len(insts)
  /\ LET b == beginGet(insts, [IdleFlow EXCEPT !.op = "get"], c, url, params, now)
     IN insts' = b.insts /\ flow' = [flow EXCEPT ![f] = b.flow]
  /\ UNCHANGED <<now, ticks, clients, container, log>>

\* client.getXML(url, {params}): the Accept header does not enter the key
GetXML(f, c, url, params) ==
  /\ ready(f)
  /\ c \in 1..Len(insts)
  /\ LET b == beginGet(insts, [IdleFlow EXCEPT !.op = "getXML"], c, url, params, now)
     IN insts' = b.insts /\ flow' = [flow EXCEPT ![f] = b.flow]
  /\ UNCHANGED <<now, ticks, clients, container, log>>

\* client.post(url, data): one attempt under the timeout, no cache, no retry
Post(f, c, url) ==
  /\ ready(f)
  /\ c \in 1..Len(insts)
  /\ flow' = [flow EXCEPT ![f] =
                requestFn([IdleFlow EXCEPT !.op = "post", !.inst = c, !.url = url],
                          insts[c].baseURL)]
  /\ UNCHANGED <<now, ticks, insts, clients, container, log>>

\* the remote answers 2xx: post returns the payload; get stores it, then
\* returns it
AttemptSucceeds(f, data, etag) ==
  /\ flow[f].pc = "inflight"
  /\ validTarget(insts[flow[f].inst].baseURL, flow[f].url)
  /\ IF flow[f].op = "post"
     THEN /\ flow' = [flow EXCEPT ![f] = finish([@ EXCEPT !.open = @ - 1], Success(data))]
          /\ UNCHANGED insts
     ELSE LET fl == [flow[f] EXCEPT !.open = @ - 1]
              cacheKey == getCacheKey(fl.url, fl.params)
              cm == setCachedResponse(insts[fl.inst].cache, cacheKey, data, etag, now)
          IN /\ insts' = [insts EXCEPT ![fl.inst].cache = cm]
             /\ flow' = [flow EXCEPT ![f] =
                           resume([fl EXCEPT !.stored = held(cm, cacheKey)], Success(data))]
  /\ UNCHANGED <<now, ticks, clients, container, log>>

\* variant: a get that gives up stores its failure under its key
AttemptFails_Cached(f, outcome) ==
  /\ flow[f].pc = "inflight"
  /\ validTarget(insts[flow[f].inst].baseURL, flow[f].url)
  /\ LET fl == caught([flow[f] EXCEPT !.open = IF outcome.kind = "timeout" THEN @ ELSE @ - 1],
                      timeout(outcome))
     IN /\ flow' = [flow EXCEPT ![f] = fl]
        /\ insts' = IF fl.op = "get" /\ fl.pc = "returned"
                    THEN [insts EXCEPT ![fl.inst].cache =
                            setCachedResponse(@, getCacheKey(fl.url, fl.params),
                                              NoData, "", now)]
                    ELSE insts
  /\ UNCHANGED <<now, ticks, clients, container, log>>

\* the attempt is rejected: no connection, an HTTP error status, or the
\* timeout wrapper fires first. Promise.race does not cancel the loser: when
\* the wrapper wins, the request it wrapped stays open
AttemptFails(f, outcome) ==
  /\ flow[f].pc = "inflight"
  /\ validTarget(insts[flow[f].inst].baseURL, flow[f].url)
  /\ flow' = [flow EXCEPT ![f] =
                caught([@ EXCEPT !.open = IF outcome.kind = "timeout" THEN @ ELSE @ - 1],
                       timeout(outcome))]
  /\ UNCHANGED <<now, ticks, insts, clients, container, log>>

\* a request the timeout wrapper gave up on ends (answered, failed, or ended
\* by the HTTP library's own idle timeout); nobody awaits its outcome
AbandonedEnds(f) ==
  /\ flow[f].open > (IF flow[f].pc = "inflight" THEN 1 ELSE 0)
  /\ flow' = [flow EXCEPT ![f].open = @ - 1]
  /\ UNCHANGED <<now, ticks, insts, clients, container, log>>

\* the target does not resolve: axios rejects with 'Invalid URL' without
\* sending anything; the rejection passes the same interceptor
InvalidUrlRejects(f) ==
  /\ flow[f].pc = "inflight"
  /\ ~validTarget(insts[flow[f].inst].baseURL, flow[f].url)
  /\ flow' = [flow EXCEPT ![f] = caught(@, timeout(InvalidUrl))]
  /\ UNCHANGED <<now, ticks, insts, clients, container, log>>

\* the backoff timer fires: retryRequest(requestFn, retryCount + 1)
BackoffElapsed(f) ==
  /\ flow[f].pc = "backoff"
  /\ flow' = [flow EXCEPT ![f] =
                requestFn([@ EXCEPT !.retryCount = @ + 1], insts[flow[f].inst].baseURL)]
  /\ UNCHANGED <<now, ticks, insts, clients, container, log>>

\* wall-clock time passes: by exactly the TTL, or just beyond it
Tick(d) ==
  /\ ticks < MaxTicks
  /\ ticks' = ticks + 1
  /\ now' = now + d
  /\ UNCHANGED <<insts, clients, flow, container, log>>

(* ---------------------------- ApiClientFactory ------------------------- *)
\* variant: every call constructs a client and registers it over the old one
getClient_Fresh(reg, is, baseURL) ==
  LET key == IF baseURL = <<>> THEN <<"default">> ELSE baseURL
  IN [clients |-> (key :> (Len(is) + 1)) @@ reg,
      insts |-> Append(is, [baseURL |-> baseURL, cache |-> <<>>]),
      inst |-> Len(is) + 1]

\* getClient on registry reg and instances is: key = baseURL || 'default';
\* a missing key gets a new ApiClient(baseURL)
getClient(reg, is, baseURL) ==
  LET key == IF baseURL = <<>> THEN <<"default">> ELSE baseURL
  IN IF key \in DOMAIN reg
     THEN [clients |-> reg, insts |-> is, inst |-> reg[key]]
     ELSE [clients |-> (key :> (Len(is) + 1)) @@ reg,
           insts |-> Append(is, [baseURL |-> baseURL, cache |-> <<>>]),
           inst |-> Len(is) + 1]

\* variant: clear leaves the registry as it is
clear_Noop(reg) == reg

\* ApiClientFactory.clear(): this.clients.clear()
clear(reg) == <<>>

\* ApiClientFactory.getClient(baseURL).get(url, {params}) by a caller
FactoryGet(f, baseURL, url, params) ==
  /\ ready(f)
  /\ LET g == getClient(clients, insts, baseURL)
         b == beginGet(g.insts, [IdleFlow EXCEPT !.op = "get", !.baseUrl = baseURL],
                       g.inst, url, params, now)
     IN /\ Len(g.insts) <= MaxInsts
        /\ clients' = g.clients
        /\ insts' = b.insts
        /\ flow' = [flow EXCEPT ![f] = b.flow]
  /\ UNCHANGED <<now, ticks, container, log>>

\* ApiClientFactory.clear() by a caller; the clients handed out before stay
\* alive with their caches, only the registry forgets them. Two clears in a
\* row by one caller are told apart by i, which alternates.
Clear(f) ==
  /\ ready(f)
  /\ clients' = clear(clients)
  /\ flow' = [flow EXCEPT ![f] =
                [IdleFlow EXCEPT !.op = "clear", !.pc = "returned",
                                 !.i = IF flow[f].op = "clear" THEN 1 - flow[f].i ELSE 0]]
  /\ UNCHANGED <<now, ticks, insts, container, log>>

(* ------------------------- DIContainer: calls -------------------------- *)
\* container.register(token, definition)
Register(token, definition) ==
  /\ Len(log) < MaxCalls
  /\ container' = register(container, token, definition)
  /\ log' = Append(log, [call |-> "register", token |-> token, definition |-> definition,
                         out |-> Null, invoked |-> FALSE, changed |-> TRUE])
  /\ UNCHANGED <<now, ticks, insts, clients, flow>>

\* container.resolve(token)
Resolve(token) ==
  /\ Len(log) < MaxCalls
  /\ LET r == resolve(container, token)
     IN /\ container' = r.container
        /\ log' = Append(log, [call |-> "resolve", token |-> token, definition |-> Null,
                               out |-> r.out, invoked |-> r.invoked,
                               changed |-> r.container # container])
  /\ UNCHANGED <<now, ticks, insts, clients, flow>>

\* container.clear()
ClearContainer ==
  /\ Len(log) < MaxCalls
  /\ container' = clearContainer(container)
  /\ log' = Append(log, [call |-> "clear", token |-> Null, definition |-> Null,
                         out |-> Null, invoked |-> FALSE, changed |-> TRUE])
  /\ UNCHANGED <<now, ticks, insts, clients, flow>>

(* ------------------- RechtspraakCaseLawService: operations ------------- *)
\* baseUrl || this.defaultBaseUrl
apiBaseUrl(baseUrl) == IF baseUrl = <<>> THEN defaultBaseUrl ELSE baseUrl

\* getDetails up to its first await: the content client, then getXML('', {id})
beginDetails(fl, ecli, baseUrl, t) ==
  LET g == getClient(clients, insts, apiBaseUrl(baseUrl) \o <<"/content">>)
      b == beginGet(g.insts, fl, g.inst, <<>>, << <<"id", ecli>> >>, t)
  IN [clients |-> g.clients, insts |-> b.insts, flow |-> b.flow]

\* service.search(request, baseUrl) up to its first await: the search client,
\* the parameters, getXML('', {params})
Search(f, parameters, baseUrl) ==
  /\ ready(f)
  /\ LET g == getClient(clients, insts, apiBaseUrl(baseUrl) \o <<"/zoeken">>)
         b == beginGet(g.insts,
                       [IdleFlow EXCEPT !.op = "search", !.stage = "search",
                                        !.baseUrl = baseUrl, !.request = parameters],
                       g.inst, <<>>, buildSearchParams(parameters), now)
     IN /\ clients' = g.clients
        /\ insts' = b.insts
        /\ flow' = [flow EXCEPT ![f] = b.flow]
  /\ UNCHANGED <<now, ticks, container, log>>

\* variant: the loop does not wait for the fetch it started, and goes on to
\* the next call while the last one waits for its retry
NextDetail_Early(f) ==
  /\ flow[f].pc \in {"nextDetail", "backoff"}
  /\ flow[f].op = "search" /\ flow[f].stage = "detail"
  /\ LET fl == flow[f]
         ecli == fl.eclis[fl.i + 1]
         d == beginDetails([fl EXCEPT !.fetched = Append(@, ecli)], ecli, fl.baseUrl, now)
     IN /\ clients' = d.clients
        /\ insts' = d.insts
        /\ flow' = [flow EXCEPT ![f] = d.flow]
  /\ UNCHANGED <<now, ticks, container, log>>

\* search, one turn of the for loop: getDetails(eclis[i], baseUrl)
NextDetail(f) ==
  /\ flow[f].pc = "nextDetail"
  /\ LET fl == flow[f]
         ecli == fl.eclis[fl.i + 1]
         d == beginDetails([fl EXCEPT !.fetched = Append(@, ecli)], ecli, fl.baseUrl, now)
     IN /\ clients' = d.clients
        /\ insts' = d.insts
        /\ flow' = [flow EXCEPT ![f] = d.flow]
  /\ UNCHANGED <<now, ticks, container, log>>

\* service.getDetails(ecli, baseUrl), called directly
GetDetails(f, ecli, baseUrl) ==
  /\ ready(f)
  /\ LET d == beginDetails([IdleFlow EXCEPT !.op = "getDetails", !.baseUrl = baseUrl,
                                            !.fetched = <<ecli>>],
                           ecli, baseUrl, now)
     IN /\ clients' = d.clients
        /\ insts' = d.insts
        /\ flow' = [flow EXCEPT ![f] = d.flow]
  /\ UNCHANGED <<now, ticks, container, log>>

(* ------------------------- compliance service: calls ------------------- *)
\* new GDPRComplianceServiceImpl().assessGDPR(request)
AssessGDPR(f, request) ==
  /\ ready(f)
  /\ LET given == prop(request.parameters, "dataTypes")
         dataTypes == IF truthy(given) /\ given.t = "array" THEN given.v ELSE <<>>
     IN flow' = [flow EXCEPT ![f] =
                   finish([IdleFlow EXCEPT !.op = "assessGDPR", !.args = request.parameters,
                                           !.risk = calculateGDPRRisk(dataTypes,
                                                                      request.parameters)],
                          assessGDPR(request))]
  /\ UNCHANGED <<now, ticks, insts, clients, container, log>>

(* ------------------------- ToolRegistry: calls ------------------------- *)
\* CaseLawSearchUseCase.execute from the service call on, up to the first
\* await of search: the request carries the validated criteria
beginSearch(fl, criteria) ==
  LET parameters == [query |-> prop(criteria, "query").v,
                     maxResults |-> prop(criteria, "maxResults").v]
      given == prop(criteria, "baseUrl")
      baseUrl == IF truthy(given) THEN <<given.v>> ELSE <<>>
      g == getClient(clients, insts, apiBaseUrl(baseUrl) \o <<"/zoeken">>)
      b == beginGet(g.insts,
                    [fl EXCEPT !.op = "search", !.stage = "search",
                               !.baseUrl = baseUrl, !.request = parameters],
                    g.inst, <<>>, buildSearchParams(parameters), now)
  IN [clients |-> g.clients, insts |-> b.insts, flow |-> b.flow]

\* toolRegistry.executeTool(name, args) up to its first await that waits for
\* the outside: the lookup of the strategy, the validation, the use case up
\* to the service's answer or its first remote call (getUpdates always
\* returns a list)
ExecuteTool(f, name, args) ==
  /\ ready(f)
  /\ LET call == [IdleFlow EXCEPT !.op = "executeTool", !.tool = Str(name),
                                  !.args = args, !.build = flow[f].build]
         validation == validationOf(name, args)
         useCase == [call EXCEPT !.executed = 1]
         r == resolve(container, tokenOf(name))
         s == beginSearch(useCase, validation.data)
     IN IF name \notin ToolNames
        THEN /\ flow' = [flow EXCEPT ![f] =
                           respond(call, formatError(<<"Unknown tool: ", name>>))]
             /\ UNCHANGED <<insts, clients, container>>
        ELSE IF ~validation.success
        THEN /\ flow' = [flow EXCEPT ![f] = respond(call, formatError(validation.error))]
             /\ UNCHANGED <<insts, clients, container>>
        ELSE IF call.build = "standard"
        THEN /\ flow' = [flow EXCEPT ![f] = finish(useCase, decorated)]
             /\ UNCHANGED <<insts, clients, container>>
        ELSE IF isThrown(r.out)
        THEN /\ flow' = [flow EXCEPT ![f] = finish(useCase, r.out)]
             /\ container' = r.container
             /\ UNCHANGED <<insts, clients>>
        ELSE IF name = "search_dutch_case_law"
        THEN /\ flow' = [flow EXCEPT ![f] = s.flow]
             /\ container' = r.container
             /\ insts' = s.insts
             /\ clients' = s.clients
        ELSE IF name = "get_dpa_updates"
        THEN /\ flow' = [flow EXCEPT ![f] =
                           returns(useCase,
                                   DPAUpdatesUseCase(prop(validation.data, "category").v,
                                                     prop(validation.data, "limit").v))]
             /\ container' = r.container
             /\ UNCHANGED <<insts, clients>>
        ELSE /\ flow' = [flow EXCEPT ![f] = finish(useCase, useCaseOf(name, validation.data))]
             /\ container' = r.container
             /\ UNCHANGED <<insts, clients>>
  /\ UNCHANGED <<now, ticks, log>>

(* ------------------------------ environment --------------------------- *)
IdParams == << <<"id", "ECLI:NL:HR:2023:1">> >>
TickSteps == {CACHE_TTL, CACHE_TTL + 1}

\* every way an attempt can be rejected: no connection, the timeout wrapper,
\* an HTTP status with an empty body, with a text body, with a JSON body
ClientFailures ==
  {NetworkFailure, TimedOut,
   HttpFailure(404, NoBody), HttpFailure(404, TextBody), HttpFailure(500, TextBody),
   HttpFailure(429, Body(TRUE, 429, "Too Many Requests"))}
ClientResponses ==
  {[data |-> EmptyPayload, etag |-> ""],
   [data |-> MalformedPayload, etag |-> ""],
   [data |-> BlankPayload, etag |-> ""],
   [data |-> DocPayload, etag |-> "W/1"]}

(* ---- the three operations of one client against every kind of answer --- *)
ClientUrls == {<<>>, ExampleUrl}

NextClient ==
  \/ \E f \in Flows, u \in ClientUrls : Get(f, 1, u, <<>>)
  \/ \E f \in Flows, u \in ClientUrls : GetXML(f, 1, u, <<>>)
  \/ \E f \in Flows, u \in ClientUrls : Post(f, 1, u)
  \/ \E f \in Flows, r \in ClientResponses : AttemptSucceeds(f, r.data, r.etag)
  \/ \E f \in Flows, o \in ClientFailures : AttemptFails(f, o)
  \/ \E f \in Flows : InvalidUrlRejects(f)
  \/ \E f \in Flows : BackoffElapsed(f)

SpecClient == InitClient /\ [][NextClient]_vars

(* -------- one get against a remote that may be slow or unreachable ------ *)
TimerFailures == {TimedOut, NetworkFailure}
TimerParams == {<<>>, << <<"id", "ECLI:NL:HR:2023:1">> >>}
TimerResponses ==
  {[data |-> EmptyPayload, etag |-> ""], [data |-> DocPayload, etag |-> "W/1"]}

NextTimer ==
  \/ \E f \in Flows, p \in TimerParams : Get(f, 1, ExampleUrl, p)
  \/ \E f \in Flows, r \in TimerResponses : AttemptSucceeds(f, r.data, r.etag)
  \/ \E f \in Flows, o \in TimerFailures : AttemptFails(f, o)
  \/ \E f \in Flows : BackoffElapsed(f)
  \/ \E f \in Flows : AbandonedEnds(f)

SpecTimer == InitClient /\ [][NextTimer]_vars

\* the timers are setTimeout callbacks: the timeout wrapper's delay and the
\* backoff delay fire once they are due
SpecTimerLive ==
  /\ SpecTimer
  /\ \A f \in Flows : WF_vars(AttemptFails(f, TimedOut))
  /\ \A f \in Flows : WF_vars(BackoffElapsed(f))

(* ------ the registry of clients: two base addresses, clear in between --- *)
FactoryBases == {NoBase, RechtspraakBase}

NextFactory ==
  \/ \E f \in Flows, b \in FactoryBases, p \in TimerParams : FactoryGet(f, b, ExampleUrl, p)
  \/ \E f \in Flows, r \in TimerResponses : AttemptSucceeds(f, r.data, r.etag)
  \/ \E f \in Flows : AttemptFails(f, HttpFailure(404, TextBody))
  \/ \E f \in Flows : Clear(f)

SpecFactory == Init /\ [][NextFactory]_vars

(* ---- the container: two tokens, three definitions, clear in between --- *)
ContainerTokens == {Token("string", "service"), Token("symbol", "CaseLawService")}
ContainerDefinitions == {Class("Service1"), Factory("factory"), Instance("instance")}

NextContainer ==
  \/ \E t \in ContainerTokens, d \in ContainerDefinitions : Register(t, d)
  \/ \E t \in ContainerTokens : Resolve(t)
  \/ ClearContainer

SpecContainer == Init /\ [][NextContainer]_vars

(* ------ GDPR assessments: lists of data types, the three switches ------- *)
GdprTypes == {"email", "Health records", "biometric", "location"}
TypeLists == UNION {[1..n -> GdprTypes] : n \in 0..MaxTypes}
GdprRequests ==
  {[id |-> "test-1", query |-> "Process data",
    parameters |-> Obj([dataTypes |-> List(types),
                        processingPurpose |-> Str("newsletter subscription"),
                        thirdPartySharing |-> Bool(sharing)]
                       @@ (IF basis THEN [legalBasis |-> Str("consent")] ELSE <<>>)
                       @@ (IF retention THEN [dataRetention |-> Str("12 months")]
                           ELSE <<>>))] :
     types \in TypeLists, sharing \in BOOLEAN, basis \in BOOLEAN, retention \in BOOLEAN}

NextGdpr == \E f \in Flows, request \in GdprRequests : AssessGDPR(f, request)

SpecGdpr == Init /\ [][NextGdpr]_vars

(* ------- the cache of one client over time: two keys, the clock -------- *)
CacheParams == {<<>>, IdParams}
CacheFailures == {NetworkFailure, HttpFailure(404, TextBody)}
CacheResponses ==
  {[data |-> MalformedPayload, etag |-> ""], [data |-> DocPayload, etag |-> "W/1"]}

NextCache ==
  \/ \E f \in Flows, p \in CacheParams : Get(f, 1, ExampleUrl, p)
  \/ \E f \in Flows, r \in CacheResponses : AttemptSucceeds(f, r.data, r.etag)
  \/ \E f \in Flows, o \in CacheFailures : AttemptFails(f, o)
  \/ \E f \in Flows : BackoffElapsed(f)
  \/ \E d \in TickSteps : Tick(d)

SpecCache == InitClient /\ [][NextCache]_vars

(* --------- the case-law service against the remote provider ----------- *)
Ecli1 == "ECLI:NL:HR:2023:1"
Ecli2 == "ECLI:NL:GHARL:2023:2"
Ecli3 == "ECLI:NL:RBAMS:2023:3"

\* search answers: an entry list with a scalar id, an entry without id, ids
\* wrapped in arrays; a list of eleven entries; a feed without entries
Feed(entries) == Raw("<feed>", TRUE, Tree(TRUE, entries, FALSE, NoRdf))
FeedOf3 ==
  Feed(Array(<<[id |-> Scalar(Ecli1)], [id |-> Absent],
               [id |-> Array(<<Ecli2>>)], [id |-> Array(<<"">>)],
               [id |-> Array(<<Ecli3>>)]>>))
FeedOf11 == Feed(Array([j \in 1..(DefaultMaxResults + 1) |-> [id |-> Array(<<Ecli1>>)]]))
EmptyFeed == Feed(Absent)
\* a feed whose entry member is a text, not a list; a document that is no feed
UnwalkableFeed == Feed(Scalar("entry"))
SearchAnswers ==
  {FeedOf3, FeedOf11, EmptyFeed, UnwalkableFeed, DocPayload, MalformedPayload, BlankPayload}

\* content answers for an identifier: its document, or one without the root
Courts == [e \in {Ecli1, Ecli2, Ecli3} |->
             CASE e = Ecli1 -> "Hoge Raad" [] e = Ecli2 -> "Gerechtshof Arnhem"
               [] OTHER -> "Rechtbank Amsterdam"]
Detail(ecli) ==
  Raw("<open-rechtspraak>", TRUE,
      Tree(FALSE, Absent, TRUE,
           [identifier |-> Array(<<ecli>>), creator |-> Array(<<Courts[ecli]>>),
            date |-> Array(<<"2023-03-15">>), subject |-> Array(<<"Civiel recht">>),
            zaaknummer |-> Array(<<"22/01234">>)]))
ContentAnswers(ecli) == {Detail(ecli), DocPayload, BlankPayload}
ServiceFailures == {NetworkFailure, HttpFailure(404, TextBody)}

\* the identifier a content request asks for
requestedId(fl) == fl.params[1][2]

SearchRequests == {[query |-> "privacy", maxResults |-> m] : m \in {0, 2}}

NextService ==
  \/ \E f \in Flows, q \in SearchRequests : Search(f, q, <<>>)
  \/ \E f \in Flows : NextDetail(f)
  \/ \E f \in Flows, e \in {Ecli1} : GetDetails(f, e, <<>>)
  \/ \E f \in Flows, d \in SearchAnswers :
       flow[f].stage = "search" /\ AttemptSucceeds(f, d, "")
  \/ \E f \in Flows, d \in UNION {ContentAnswers(e) : e \in {Ecli1, Ecli2, Ecli3}} :
       /\ flow[f].stage # "search"
       /\ flow[f].pc = "inflight"
       /\ d \in ContentAnswers(requestedId(flow[f]))
       /\ AttemptSucceeds(f, d, "")
  \/ \E f \in Flows, o \in ServiceFailures : AttemptFails(f, o)
  \/ \E f \in Flows : BackoffElapsed(f)

SpecService == Init /\ [][NextService]_vars

(* ------- tool calls by concurrent callers, with and without bootstrap --- *)
Callers == 1..NumCallers

\* setupDependencies()
Bootstrapped ==
  register(
    register(
      register(
        register(
          register(NewContainer, TOKENS.CASE_LAW_SERVICE, Class("RechtspraakCaseLawService")),
          TOKENS.COMPLIANCE_SERVICE, Class("GDPRComplianceServiceImpl")),
        TOKENS.RISK_ANALYSIS_SERVICE, Class("RiskAnalysisServiceImpl")),
      TOKENS.DPA_SERVICE, Class("DPAServiceImpl")),
    TOKENS.TOOL_REGISTRY, Factory("ToolRegistry"))

\* arguments each schema accepts; valid searches name no court, date or subject
AcceptedArgs(name) ==
  CASE name = "search_dutch_case_law" ->
         {Obj([query |-> Str("privacy")]),
          Obj([query |-> Str(" privacy "), maxResults |-> Num(10), extra |-> Bool(TRUE)])}
    [] name = "check_gdpr_compliance" ->
         {Obj([dataTypes |-> List(<<"email">>),
               processingPurpose |-> Str("newsletter subscription")]),
          Obj([dataTypes |-> List(<<"biometric", "location">>),
               processingPurpose |-> Str("newsletter subscription"),
               legalBasis |-> Str("consent"), dataRetention |-> Str("12 months"),
               thirdPartySharing |-> Bool(TRUE)])}
    [] name = "classify_ai_system" ->
         {Obj([systemDescription |-> Str("Recruitment screening with CV ranking"),
               applicationDomain |-> Str("employment")]),
          Obj([systemDescription |-> Str("Chatbot for customer support"),
               applicationDomain |-> Str("retail")])}
    [] name = "analyze_legal_risk" ->
         {Obj([businessDescription |-> Str("AI chatbot for healthcare triage"),
               aiComponents |-> Bool(TRUE), targetMarket |-> Str("eu")]),
          Obj([businessDescription |-> Str("Online store with consumer payments"),
               dataProcessing |-> Obj([dataTypes |-> Str("all")])])}
    [] name = "get_dpa_updates" ->
         {Obj(<<>>), Obj([category |-> Str("guidance"), limit |-> Num(1)])}
    [] OTHER -> {}

\* arguments each schema rejects: the ones of the validation tests, a wrong
\* date, a wrong address, and values that are no object
RejectedArgs(name) ==
  {Undefined}
  \cup CASE name = "search_dutch_case_law" ->
              {Obj([query |-> Str(""), maxResults |-> Num(200)]),
               Obj([query |-> Str("privacy"), dateFrom |-> Str("2023")]),
               Obj([query |-> Str("privacy"), baseUrl |-> Str("not-a-url")]),
               NullValue}
         [] name = "check_gdpr_compliance" ->
              {Obj([dataTypes |-> List(<<>>), processingPurpose |-> Str("")]),
               Obj([dataTypes |-> NullValue])}
         [] name = "classify_ai_system" ->
              {Obj([systemDescription |-> Str("AI"), applicationDomain |-> Str("")])}
         [] name = "analyze_legal_risk" ->
              {Obj([businessDescription |-> Str("App")])}
         [] name = "get_dpa_updates" ->
              {Obj([limit |-> Num(50)]), Obj([category |-> Str("privacy")])}
         [] OTHER -> {}

UnknownTools == {"unknown_tool", ""}
CalledTools == ToolNames \cup UnknownTools
ToolArgs(name) ==
  IF name \in ToolNames THEN AcceptedArgs(name) \cup RejectedArgs(name)
  ELSE {Obj(<<>>)}

\* Only the search tool waits for the outside; a call of any other tool, or
\* a rejected one, runs from start to end without another call in between.
\* So the first caller calls every tool with every argument, and the callers
\* that run next to it search, or have their search rejected.
ArgsOf(f, name) ==
  IF f = 1 THEN ToolArgs(name)
  ELSE IF name = "search_dutch_case_law"
  THEN {Obj([query |-> Str("privacy")]),
        Obj([query |-> Str(""), maxResults |-> Num(200)])}
  ELSE {}

\* the remote provider's answers to a tool's search and to its detail requests
FeedOf1 == Feed(Array(<<[id |-> Absent], [id |-> Array(<<Ecli1>>)]>>))
ToolSearchAnswers == {FeedOf1}
ToolFailures == {HttpFailure(404, TextBody)}

InitTools ==
  /\ now = 0
  /\ ticks = 0
  /\ insts = <<>>
  /\ clients = <<>>
  /\ \E build \in Builds : flow = [f \in Callers |-> [IdleFlow EXCEPT !.build = build]]
  /\ container \in {NewContainer, Bootstrapped}
  /\ log = <<>>

NextTools ==
  \/ \E f \in Callers, name \in CalledTools :
       \E args \in ArgsOf(f, name) : ExecuteTool(f, name, args)
  \/ \E f \in Callers, d \in ToolSearchAnswers :
       flow[f].stage = "search" /\ AttemptSucceeds(f, d, "")
  \/ \E f \in Callers, e \in {Ecli1} :
       /\ flow[f].stage = "detail"
       /\ flow[f].pc = "inflight"
       /\ e = requestedId(flow[f])
       /\ AttemptSucceeds(f, Detail(e), "")
  \/ \E f \in Callers, o \in ToolFailures : AttemptFails(f, o)
  \/ \E f \in Callers : NextDetail(f)

SpecTools == InitTools /\ [][NextTools]_vars

(* ---- callers that share the registry and its clients, interleaved ----- *)
\* the remote's answers depend on what is asked: two answers per parameter set
SharedResponses(params) ==
  IF params = IdParams
  THEN {[data |-> DocPayload, etag |-> "W/1"], [data |-> MalformedPayload, etag |-> "W/2"]}
  ELSE {[data |-> EmptyPayload, etag |-> "W/3"], [data |-> BlankPayload, etag |-> "W/4"]}

InitShared ==
  /\ now = 0
  /\ ticks = 0
  /\ insts = <<>>
  /\ clients = <<>>
  /\ flow = [f \in Callers |-> IdleFlow]
  /\ container = NewContainer
  /\ log = <<>>

NextShared ==
  \/ \E f \in Callers, b \in FactoryBases, p \in CacheParams : FactoryGet(f, b, ExampleUrl, p)
  \/ \E f \in Callers : \E r \in SharedResponses(flow[f].params) :
       AttemptSucceeds(f, r.data, r.etag)
  \/ \E f \in Callers : AttemptFails(f, HttpFailure(404, TextBody))

SpecShared == InitShared /\ [][NextShared]_vars

(* ----- one client asked for the same parameters in different orders --- *)
KeyUrls == {ExampleUrl, RechtspraakBase}
KeyParams ==
  {<<>>, << <<"q", "privacy">> >>,
   << <<"q", "privacy">>, <<"max", "5">> >>,
   << <<"max", "5">>, <<"q", "privacy">> >>}

NextKeys ==
  \/ \E f \in Flows, u \in KeyUrls, p \in KeyParams : Get(f, 1, u, p)
  \/ \E f \in Flows : AttemptSucceeds(f, DocPayload, "W/1")
  \/ \E f \in Flows : AttemptFails(f, HttpFailure(404, TextBody))

SpecKeys == InitClient /\ [][NextKeys]_vars

(* ---- the registry asked without an address and for the text 'default' -- *)
DefaultBase == <<"default">>
DefaultBases == {NoBase, DefaultBase, RechtspraakBase}

NextDefault ==
  \/ \E f \in Flows, b \in DefaultBases, p \in TimerParams : FactoryGet(f, b, ExampleUrl, p)
  \/ \E f \in Flows, r \in TimerResponses : AttemptSucceeds(f, r.data, r.etag)
  \/ \E f \in Flows : AttemptFails(f, HttpFailure(404, TextBody))
  \/ \E f \in Flows : Clear(f)

SpecDefault == Init /\ [][NextDefault]_vars

(* ------ the service asked for more records than the documented cap ----- *)
\* the upper limit of maxResults in CaseLawSearchSchema
MaxResultsCeiling == 50

\* a search answer with one entry more than the limit
FeedOverCeiling ==
  Feed(Array([j \in 1..(MaxResultsCeiling + 1) |-> [id |-> Array(<<Ecli1>>)]]))

\* service.search is called with parameters nothing has validated, as
\* CaseLawSearchUseCase.execute does with its criteria
CeilingRequests == {[query |-> "privacy", maxResults |-> 1000]}

NextCeiling ==
  \/ \E f \in Flows, q \in CeilingRequests : Search(f, q, <<>>)
  \/ \E f \in Flows : NextDetail(f)
  \/ \E f \in Flows : flow[f].stage = "search" /\ AttemptSucceeds(f, FeedOverCeiling, "")
  \/ \E f \in Flows, d \in ContentAnswers(Ecli1) :
       flow[f].stage # "search" /\ AttemptSucceeds(f, d, "")
  \/ \E f \in Flows : AttemptFails(f, HttpFailure(404, TextBody))

SpecCeiling == Init /\ [][NextCeiling]_vars

(* ---------- the record mapper on every shape of content document ------- *)
\* content documents: each optional field absent or present, the date also
\* empty or not a date, names in several spellings
CreatorInputs ==
  {Absent, Array(<<"Hoge Raad">>), Array(<<"HOGE RAAD">>),
   Array(<<"Gerechtshof Arnhem">>), Array(<<"Rechtbank Amsterdam">>)}
DateInputs ==
  {Absent, Array(<<"2023-03-15">>), Array(<<"2023-03-15T10:30:00Z">>),
   Array(<<"not-a-date">>), Array(<<"">>)}
SubjectInputs ==
  {Absent, Array(<<"Civiel recht">>), Array(<<"Civiel recht", "Europees recht">>),
   Array(<<"Staatsrecht; Grondrechten">>)}
CaseNumberInputs == {Absent, Array(<<"22/01234">>)}
RdfInputs ==
  [identifier : {Array(<<Ecli1>>)}, creator : CreatorInputs, date : DateInputs,
   subject : SubjectInputs, zaaknummer : CaseNumberInputs]
MapperInputs == {Tree(FALSE, Absent, TRUE, rdf) : rdf \in RdfInputs} \cup {OtherTree}

\* each flow holds, as inner, the response getDetails got from getXML
InitMapper ==
  /\ now = 0
  /\ ticks = 0
  /\ insts = <<>>
  /\ clients = <<>>
  /\ flow \in [Flows -> {[IdleFlow EXCEPT !.op = "map", !.inner = Success(tree)] :
                            tree \in MapperInputs}]
  /\ container = NewContainer
  /\ log = <<>>

\* getDetails from the response on: the check, then parseContentResponse
MapDetails(f) ==
  /\ flow[f].op = "map"
  /\ flow[f].pc = "idle"
  /\ flow' = [flow EXCEPT ![f] = finish(@, getDetailsAfter(@.inner))]
  /\ UNCHANGED <<now, ticks, insts, clients, container, log>>

NextMapper == \E f \in Flows : MapDetails(f)

SpecMapper == InitMapper /\ [][NextMapper]_vars

(* ============================ properties ============================== *)
\* a step in which flow f is given a new operation
called(f) == ready(f) /\ flow'[f] # flow[f]

\* the cache key of the transport call flow record fl is in
keyOf(fl) == getCacheKey(fl.url, fl.params)

(* ---------------------- SpecCache: the response cache ------------------ *)
\* C1: a get for a key whose entry (stored by an earlier get that succeeded
\* over the network) is at most CACHE_TTL old returns success with exactly the
\* stored payload, and makes no attempt and sends no request.
C1_FreshHit ==
  [][\A f \in Flows :
       called(f) =>
         LET cm == insts[flow'[f].inst].cache
             key == keyOf(flow'[f])
         IN (key \in DOMAIN cm /\ now - cm[key].timestamp <= CACHE_TTL) =>
              /\ flow'[f].pc = "returned"
              /\ flow'[f].result = Success(cm[key].data)
              /\ flow'[f].attempts = 0
              /\ flow'[f].wire = 0
              /\ insts' = insts]_vars

\* a get answered from an entry whose age is exactly the TTL
C1_Witness ==
  \E f \in Flows :
    /\ flow[f].op = "get" /\ flow[f].pc = "returned" /\ flow[f].lookup = "fresh"
    /\ flow[f].result = Success(DocPayload)
    /\ flow[f].wire = 0
    /\ keyOf(flow[f]) \in DOMAIN insts[flow[f].inst].cache
    /\ now - insts[flow[f].inst].cache[keyOf(flow[f])].timestamp = CACHE_TTL

\* C4: a get whose lookup meets an entry older than CACHE_TTL does not return
\* it (the call goes to the network instead), the lookup removes that entry,
\* and every other key keeps its entry unchanged.
C4_ExpiredEvicted ==
  [][\A f \in Flows :
       called(f) =>
         LET cm == insts[flow'[f].inst].cache
             cm2 == insts'[flow'[f].inst].cache
             key == keyOf(flow'[f])
         IN (key \in DOMAIN cm /\ now - cm[key].timestamp > CACHE_TTL) =>
              /\ flow'[f].pc = "inflight"
              /\ flow'[f].result = Null
              /\ flow'[f].wire = 1
              /\ DOMAIN cm2 = DOMAIN cm \ {key}
              /\ \A k \in DOMAIN cm2 : cm2[k] = cm[k]]_vars

\* a get in flight after it evicted its expired entry; the other key's
\* entry is still there
C4_Witness ==
  \E f \in Flows :
    /\ flow[f].op = "get" /\ flow[f].pc = "inflight" /\ flow[f].lookup = "expired"
    /\ flow[f].retryCount = 0
    /\ keyOf(flow[f]) \notin DOMAIN insts[flow[f].inst].cache
    /\ DOMAIN insts[flow[f].inst].cache # {}

\* C5, as stated: a get whose lookup met an expired entry makes exactly one
\* network call, and the payload of that call becomes the key's entry.
C5_ExactlyOneCall ==
  \A f \in Flows :
    (flow[f].op = "get" /\ flow[f].lookup = "expired" /\ flow[f].pc = "returned") =>
      /\ flow[f].wire = 1
      /\ flow[f].result.success => flow[f].stored.data = flow[f].result.data

\* C5, amended: a get whose lookup met an expired entry is not answered from
\* the cache and makes at least one network call: exactly one when the first
\* attempt succeeds, one more for each retry otherwise. When it succeeds the
\* payload of the successful call becomes the key's entry; when it fails it
\* stores nothing.
C5_RefetchAfterExpiry ==
  \A f \in Flows :
    (flow[f].op = "get" /\ flow[f].lookup = "expired") =>
      /\ flow[f].wire >= 1
      /\ flow[f].wire = flow[f].retryCount + 1
      /\ flow[f].seen = NoHeld
      /\ flow[f].pc = "returned" =>
           IF flow[f].result.success
           THEN /\ flow[f].stored.data = flow[f].result.data
                /\ flow[f].lastError = NoError
           ELSE flow[f].stored = NoHeld

\* a get after expiry that succeeded on its second network call
C5_Witness ==
  \E f \in Flows :
    /\ flow[f].op = "get" /\ flow[f].lookup = "expired" /\ flow[f].pc = "returned"
    /\ flow[f].result = Success(DocPayload)
    /\ flow[f].stored.data = DocPayload
    /\ flow[f].wire = 2

(* ------------------ SpecClient: attempts, retries, results ------------- *)
\* C2, as stated: one get never makes more than maxRetries (3) network
\* attempts.
C2_AtMostThreeAttempts ==
  \A f \in Flows : flow[f].op = "get" => flow[f].wire <= maxRetries

\* C3, as stated: a get waits for a retry only after an attempt that ended
\* without an HTTP response, with a 5xx status or with status 429.
C3_RetryOnlyRetryable ==
  \A f \in Flows :
    (flow[f].op = "get" /\ flow[f].pc = "backoff") =>
      \/ flow[f].lastError.statusCode = 0
      \/ flow[f].lastError.statusCode \in 500..599
      \/ flow[f].lastError.statusCode = 429

\* C6: get, post and getXML never end by throwing; whenever the last attempt
\* failed, or getXML got nothing from get or a parse error, the caller gets a
\* result with success = false, no data and a non-empty error message.
C6_NeverThrows ==
  \A f \in Flows :
    flow[f].op \in {"get", "post", "getXML"} =>
      /\ flow[f].pc # "threw"
      /\ flow[f].thrown = NoError
      /\ flow[f].pc = "returned" =>
           /\ flow[f].result.success \in BOOLEAN
           /\ flow[f].lastError # NoError => ~flow[f].result.success
           /\ (flow[f].op = "getXML"
                 /\ (~flow[f].inner.success \/ ~truthyData(flow[f].inner.data)
                       \/ isThrown(parseXMLAsync(flow[f].inner.data)))) =>
                 ~flow[f].result.success
           /\ ~flow[f].result.success =>
                 flow[f].result.data = NoData /\ flow[f].result.error # ""

\* getXML returned a failure after its last attempt timed out
C6_Witness ==
  \E f \in Flows :
    /\ flow[f].op = "getXML" /\ flow[f].pc = "returned"
    /\ flow[f].retryCount = maxRetries
    /\ flow[f].lastError = timeout(TimedOut)
    /\ ~flow[f].result.success

\* C7, as stated: a get whose target does not resolve returns a failure
\* saying 'Invalid URL', sends no request and is never retried.
C7_InvalidUrlNoRetry ==
  \A f \in Flows :
    (flow[f].op = "get" /\ ~validTarget(insts[flow[f].inst].baseURL, flow[f].url)) =>
      /\ flow[f].wire = 0
      /\ flow[f].delays = <<>>
      /\ flow[f].pc # "backoff"
      /\ flow[f].pc = "returned" =>
           ~flow[f].result.success /\ flow[f].result.error = "Invalid URL"

\* C8, as stated: when the last attempt failed, the failure returned by get
\* and by getXML carries that attempt's error message.
C8_FinalErrorCarried ==
  \A f \in Flows :
    (flow[f].op \in {"get", "getXML"} /\ flow[f].pc = "returned"
       /\ flow[f].lastError # NoError) =>
      ~flow[f].result.success /\ flow[f].result.error = flow[f].lastError.message

(* -------------------- SpecService: search and details ------------------ *)
\* the requested maximum of a search, 10 when none is given
requested(fl) ==
  IF fl.request.maxResults = 0 THEN DefaultMaxResults ELSE fl.request.maxResults

\* C9: when the search call of search returns a failure (its attempts failed,
\* or the answer could not be parsed), search throws an error with that
\* failure's message, calls getDetails for nothing and returns no records.
C9_SearchFailureThrows ==
  \A f \in Flows :
    (flow[f].op = "search" /\ flow[f].searched # Null /\ ~flow[f].searched.success) =>
      /\ flow[f].pc = "threw"
      /\ flow[f].thrown.message = flow[f].searched.error
      /\ flow[f].fetched = <<>>
      /\ flow[f].cases = <<>>
      /\ flow[f].result = Null

\* search threw after the search call ran out of attempts
C9_Witness ==
  \E f \in Flows :
    /\ flow[f].op = "search" /\ flow[f].pc = "threw"
    /\ flow[f].retryCount = maxRetries
    /\ flow[f].lastError = timeout(NetworkFailure)
    /\ flow[f].thrown.message = "Failed to fetch XML data"
    /\ flow[f].fetched = <<>>

\* C10: once the search call has succeeded, search calls getDetails for the
\* extracted identifiers in order, one call each, never beyond the first
\* k = min(number of identifiers, requested maximum); it returns only after
\* all k calls, whatever became of the earlier ones, and it does not throw.
C10_EveryDetailFetched ==
  \A f \in Flows :
    (flow[f].op = "search" /\ flow[f].stage = "detail") =>
      LET k == min(Len(flow[f].eclis), requested(flow[f]))
      IN /\ Len(flow[f].fetched) <= k
         /\ flow[f].fetched = SubSeq(flow[f].eclis, 1, Len(flow[f].fetched))
         /\ Len(flow[f].cases) <= Len(flow[f].fetched)
         /\ flow[f].pc # "threw"
         /\ flow[f].pc = "returned" =>
              flow[f].fetched = SubSeq(flow[f].eclis, 1, k) /\ flow[f].result = flow[f].cases

\* a search without a requested maximum returned after fetching ten of
\* eleven identifiers, although the fetch for the first one failed
C10_Witness ==
  \E f \in Flows :
    /\ flow[f].op = "search" /\ flow[f].pc = "returned"
    /\ flow[f].request.maxResults = 0
    /\ Len(flow[f].eclis) = DefaultMaxResults + 1
    /\ Len(flow[f].fetched) = DefaultMaxResults
    /\ Len(flow[f].cases) = DefaultMaxResults - 1

\* the records among the completions of the getDetails calls, in call order
recordsOf(settled) == SelectSeq(settled, LAMBDA x : ~isThrown(x))

\* C11: search returns exactly the records that its getDetails calls for the
\* first k identifiers returned, one per call that did not throw, in the order
\* of the identifiers; each record is the one mapped for its identifier.
C11_RecordsInOrder ==
  \A f \in Flows :
    (flow[f].op = "search" /\ flow[f].stage = "detail") =>
      /\ Len(flow[f].settled) = flow[f].i
      /\ flow[f].cases = recordsOf(flow[f].settled)
      /\ \A j \in 1..Len(flow[f].settled) :
           ~isThrown(flow[f].settled[j]) => flow[f].settled[j].ecli = flow[f].eclis[j]
      /\ flow[f].pc = "returned" =>
           /\ flow[f].result = recordsOf(flow[f].settled)
           /\ Len(flow[f].settled) = min(Len(flow[f].eclis), requested(flow[f]))

\* of three identifiers the fetch for the second failed: the records of the
\* first and the third are returned, in that order
C11_Witness ==
  \E f \in Flows :
    /\ flow[f].op = "search" /\ flow[f].pc = "returned"
    /\ flow[f].eclis = <<Ecli1, Ecli2, Ecli3>>
    /\ Len(flow[f].settled) = 3
    /\ isThrown(flow[f].settled[2])
    /\ Len(flow[f].result) = 2
    /\ flow[f].result[1].ecli = Ecli1
    /\ flow[f].result[2].ecli = Ecli3

\* C12, as stated: whatever maxResults a search is called with, it calls
\* getDetails at most 50 times and returns at most 50 records.
C12_AtMostFiftyFetches ==
  \A f \in Flows :
    flow[f].op = "search" =>
      /\ Len(flow[f].fetched) <= MaxResultsCeiling
      /\ flow[f].pc = "returned" => Len(flow[f].result) <= MaxResultsCeiling

\* C13: a search whose search call succeeded never throws; when it found no
\* identifier, or every getDetails call threw, it returns the empty list.
C13_EmptyResultReturned ==
  \A f \in Flows :
    (flow[f].op = "search" /\ flow[f].searched # Null /\ flow[f].searched.success
       /\ truthyData(flow[f].searched.data)) =>
      /\ flow[f].pc # "threw"
      /\ flow[f].thrown = NoError
      /\ (flow[f].eclis = <<>> \/ flow[f].pc = "returned") =>
           /\ flow[f].pc = "returned"
           /\ (flow[f].eclis = <<>> \/ \A j \in 1..Len(flow[f].settled) :
                                        isThrown(flow[f].settled[j])) =>
                flow[f].result = <<>>

\* three identifiers were found and all three detail fetches failed: search
\* returned the empty list
C13_Witness ==
  \E f \in Flows :
    /\ flow[f].op = "search" /\ flow[f].pc = "returned"
    /\ Len(flow[f].fetched) = 3
    /\ \A j \in 1..3 : isThrown(flow[f].settled[j])
    /\ flow[f].result = <<>>

\* what get returned is a payload that decodes to a document with the root
\* container
hasRoot(r) ==
  /\ r.success
  /\ truthyData(r.data)
  /\ ~isThrown(parseXMLAsync(r.data))
  /\ parseXMLAsync(r.data) # NoTree
  /\ parseXMLAsync(r.data).root

\* C14: getDetails returns a record only when its fetch succeeded and the
\* decoded payload has the root container; in every other case it throws, and
\* when search made the call, the list of records stays as it was.
C14_RecordNeedsRoot ==
  [][\A f \in Flows :
       /\ (flow'[f].op = "getDetails" /\ flow'[f].pc \in {"returned", "threw"}) =>
            /\ flow'[f].pc = "returned" => hasRoot(flow'[f].inner)
            /\ ~hasRoot(flow'[f].inner) =>
                 flow'[f].pc = "threw" /\ flow'[f].result = Null
       /\ (flow[f].op = "search" /\ flow[f].stage = "detail"
             /\ flow'[f].op = "search" /\ flow'[f].i = flow[f].i + 1
             /\ ~hasRoot(flow'[f].inner)) =>
            /\ isThrown(flow'[f].settled[flow'[f].i])
            /\ flow'[f].cases = flow[f].cases]_vars

\* in a search over three identifiers the first payload had no root
\* container; the search returned the records of the other two
C14_Witness ==
  \E f \in Flows :
    /\ flow[f].op = "search" /\ flow[f].pc = "returned"
    /\ Len(flow[f].settled) = 3
    /\ isThrown(flow[f].settled[1])
    /\ flow[f].settled[1].error.message = "Invalid content response format"
    /\ Len(flow[f].result) = 2
    /\ flow[f].result[1].ecli = Ecli2

(* ------------------------ SpecMapper: the records ---------------------- *)
\* the description a mapped flow was given, and whether a field of it is there
rdfOf(fl) == fl.inner.data.rdf
mapped(fl) == fl.op = "map" /\ fl.pc \in {"returned", "threw"} /\ fl.inner.data.root
present(field) == field # Absent

\* C15, as stated: for a document with the root container whose date, when
\* present, is a date, the mapping produces a record whichever optional fields
\* (issuing body, date, subjects, case number) are absent.
C15_MissingFieldStillMaps ==
  \A f \in Flows :
    (mapped(flow[f])
       /\ (present(rdfOf(flow[f]).date) =>
             getValue(rdfOf(flow[f]).date) \in ParseableDates)) =>
      flow[f].pc = "returned"

\* C16, as stated: in a mapped record an absent issuing body gives the court
\* 'Unknown Court' and an absent case number gives the empty case number.
C16_DefaultsForAbsentFields ==
  \A f \in Flows :
    (mapped(flow[f]) /\ flow[f].pc = "returned") =>
      /\ ~present(rdfOf(flow[f]).creator) => flow[f].result.court = "Unknown Court"
      /\ ~present(rdfOf(flow[f]).zaaknummer) => flow[f].result.caseNumber = ""

\* C17, as stated: a document whose date is present but not a parseable date
\* maps to a record with the empty date; the mapping does not throw.
C17_BadDateMapsToEmpty ==
  \A f \in Flows :
    (mapped(flow[f]) /\ present(rdfOf(flow[f]).date)
       /\ getValue(rdfOf(flow[f]).date) \notin ParseableDates) =>
      flow[f].pc = "returned" /\ flow[f].result.date = ""

\* C19: the precedent weight of a mapped record is high for an issuing body
\* named 'Hoge Raad' in any letter case; otherwise medium for a 'Gerechtshof';
\* otherwise medium when a subject names 'Grondrechten' or 'Europees recht';
\* otherwise low. The subjects never change the weight of the first two.
C19_PrecedentTable ==
  \A f \in Flows :
    (mapped(flow[f]) /\ flow[f].pc = "returned") =>
      LET court == flow[f].result.court
          subjects == flow[f].result.subjects
          weight == flow[f].result.precedentValue
          tagged == \E j \in 1..Len(subjects) :
                      subjects[j] \in {"Europees recht", "Staatsrecht; Grondrechten"}
      IN /\ court \in {"Hoge Raad", "HOGE RAAD"} => weight = "high"
         /\ court = "Gerechtshof Arnhem" => weight = "medium"
         /\ (court \in {"Rechtbank Amsterdam", "undefined"} /\ tagged) => weight = "medium"
         /\ (court \in {"Rechtbank Amsterdam", "undefined"} /\ ~tagged) => weight = "low"
         /\ court \in {"Hoge Raad", "HOGE RAAD", "Gerechtshof Arnhem",
                       "Rechtbank Amsterdam", "undefined"}

\* a record of the Hoge Raad written in capitals, with a European-law
\* subject, weighs high
C19_Witness ==
  \E f \in Flows :
    /\ mapped(flow[f]) /\ flow[f].pc = "returned"
    /\ flow[f].result.court = "HOGE RAAD"
    /\ flow[f].result.subjects = <<"Civiel recht", "Europees recht">>
    /\ flow[f].result.precedentValue = "high"

(* --------------------- SpecClient: parsing in getXML ------------------- *)
\* C18, as stated: when get hands getXML a payload that is not well-formed
\* markup, getXML returns success = false with an error message, never
\* success.
C18_MalformedNeverSucceeds ==
  \A f \in Flows :
    (flow[f].op = "getXML" /\ flow[f].pc = "returned" /\ flow[f].inner.success
       /\ truthyData(flow[f].inner.data) /\ ~flow[f].inner.data.wellFormed) =>
      ~flow[f].result.success /\ flow[f].result.error # ""

(* ----------------------- SpecCache: storing a result ------------------- *)
\* C20: the step in which a get returns a payload fetched over the network
\* leaves, under the call's cache key, an entry with exactly that payload, the
\* current time and the response's etag (none when the response had none),
\* whatever was there before; no other key is touched.
C20_SuccessStored ==
  [][\A f \in Flows :
       (flow[f].op = "get" /\ flow[f].pc = "inflight"
          /\ flow'[f].pc = "returned" /\ flow'[f].result.success) =>
         LET key == keyOf(flow[f])
             cm == insts[flow[f].inst].cache
             cm2 == insts'[flow[f].inst].cache
         IN /\ DOMAIN cm2 = DOMAIN cm \cup {key}
            /\ cm2[key].data = flow'[f].result.data
            /\ cm2[key].timestamp = now
            /\ \E r \in CacheResponses :
                 r.data = flow'[f].result.data /\ cm2[key].etag = r.etag
            /\ \A k \in DOMAIN cm \ {key} : cm2[k] = cm[k]]_vars

\* a get that met an expired entry returned the fetched payload, and the
\* key's entry is that payload with its etag, stamped with the current time
C20_Witness ==
  \E f \in Flows :
    /\ flow[f].op = "get" /\ flow[f].pc = "returned" /\ flow[f].lookup = "expired"
    /\ flow[f].retryCount = 0
    /\ flow[f].result = Success(DocPayload)
    /\ now > 0
    /\ keyOf(flow[f]) \in DOMAIN insts[flow[f].inst].cache
    /\ insts[flow[f].inst].cache[keyOf(flow[f])] =
         [data |-> DocPayload, timestamp |-> now, etag |-> "W/1"]

C30_OneRequestOpen ==
  \A f \in Flows : flow[f].op = "get" => flow[f].open <= 1


(* C22: between two clears the registry is stable: a step that is not a    *)
(* clear keeps every registered client, and a call through the factory for *)
(* a base address that is registered gets the registered instance (no new  *)
(* client is constructed), so it reads the cache the earlier callers wrote.*)
C22_SameInstance ==
  [][\A f \in Flows :
       /\ (\A g \in Flows : flow'[g].op = "clear" => flow'[g] = flow[g]) =>
            \A k \in DOMAIN clients : k \in DOMAIN clients' /\ clients'[k] = clients[k]
       /\ (ready(f) /\ flow'[f].op = "get" /\ flow'[f] # flow[f]) =>
            LET key == IF flow'[f].baseUrl = <<>> THEN <<"default">>
                       ELSE flow'[f].baseUrl
            IN /\ key \in DOMAIN clients'
               /\ flow'[f].inst = clients'[key]
               /\ key \in DOMAIN clients =>
                    /\ flow'[f].inst = clients[key]
                    /\ Len(insts') = Len(insts)
                    /\ insts'[clients[key]].baseURL = flow'[f].baseUrl
               /\ key \notin DOMAIN clients =>
                    /\ flow'[f].inst = Len(insts) + 1
                    /\ Len(insts') = Len(insts) + 1]_vars

\* a second call for the same base address is answered from the cache of the
\* registered client, without a request
C22_Witness ==
  \E f \in Flows :
    /\ flow[f].op = "get" /\ flow[f].pc = "returned"
    /\ flow[f].baseUrl = RechtspraakBase
    /\ RechtspraakBase \in DOMAIN clients
    /\ flow[f].inst = clients[RechtspraakBase]
    /\ flow[f].lookup = "fresh" /\ flow[f].wire = 0
    /\ Len(insts) = 1

(* C23: a clear step leaves the registry empty; a call through the factory *)
(* for a base address the registry does not hold gets a newly constructed  *)
(* client, whose cache is empty: the lookup misses and nothing stored by   *)
(* an earlier client is returned.                                          *)
C23_ClearForgets ==
  [][\A f \in Flows :
       /\ (flow'[f].op = "clear" /\ flow'[f] # flow[f]) => clients' = <<>>
       /\ (ready(f) /\ flow'[f].op = "get" /\ flow'[f] # flow[f]) =>
            LET key == IF flow'[f].baseUrl = <<>> THEN <<"default">>
                       ELSE flow'[f].baseUrl
            IN key \notin DOMAIN clients =>
                 /\ flow'[f].inst \notin 1..Len(insts)
                 /\ flow'[f].lookup = "miss"
                 /\ flow'[f].seen = NoHeld
                 /\ flow'[f].wire = 1]_vars

\* after a clear, a call misses on the new client although the client
\* registered before the clear holds a response for the same key
C23_Witness ==
  \E f \in Flows :
    /\ flow[f].op = "get" /\ flow[f].pc = "inflight"
    /\ flow[f].baseUrl = RechtspraakBase
    /\ flow[f].inst = 2 /\ clients = (RechtspraakBase :> 2)
    /\ flow[f].lookup = "miss"
    /\ insts[1].baseURL = RechtspraakBase
    /\ getCacheKey(flow[f].url, flow[f].params) \in DOMAIN insts[1].cache

\* C24, as stated: the link of a mapped record is the view base address,
\* then '/details?id=', then the record's identifier with every reserved
\* character percent-escaped.
C24_DetailUrl ==
  \A f \in Flows :
    (mapped(flow[f]) /\ flow[f].pc = "returned" /\ flow[f].result.ecli = Ecli1) =>
      flow[f].result.url =
        <<"https://uitspraken.rechtspraak.nl", "/details?id=",
          "E", "C", "L", "I", "%3A", "N", "L", "%3A", "H", "R", "%3A",
          "2", "0", "2", "3", "%3A", "1">>

\* the calls of the log, by position
resolved(j) == log[j].call = "resolve"
clearedBetween(i, j) == \E k \in (i + 1)..(j - 1) : log[k].call = "clear"
\* call j is made on a token that was registered and not cleared since
registeredAt(j) ==
  \E k \in 1..(j - 1) :
    /\ log[k].call = "register" /\ log[k].token = log[j].token
    /\ ~clearedBetween(k, j)

(* C27: a resolve of a registered token returns an instance; two resolves  *)
(* of the same token with no clear between them return the identical       *)
(* object, and at most one of them ran a constructor or factory, also when *)
(* the token was registered again in between.                              *)
C27_SingleInstance ==
  /\ \A j \in 1..Len(log) : (resolved(j) /\ registeredAt(j)) => ~isThrown(log[j].out)
  /\ \A i, j \in 1..Len(log) :
       (i < j /\ resolved(i) /\ resolved(j) /\ log[i].token = log[j].token
          /\ ~clearedBetween(i, j)) =>
         /\ ~(log[i].invoked /\ log[j].invoked)
         /\ registeredAt(i) => log[j].out = log[i].out

\* a class is registered and resolved, a factory is registered for the same
\* token, and the next resolve returns the object constructed first
C27_Witness ==
  \E t \in ContainerTokens :
    /\ Len(log) = 4
    /\ log[1].call = "register" /\ log[1].token = t /\ log[1].definition = Class("Service1")
    /\ resolved(2) /\ log[2].token = t /\ log[2].invoked
    /\ log[3].call = "register" /\ log[3].token = t /\ log[3].definition = Factory("factory")
    /\ resolved(4) /\ log[4].token = t /\ ~log[4].invoked
    /\ log[4].out = Object("Service1", 1)

(* C28: a resolve of a token that was never registered, or not since the   *)
(* last clear, throws Error('Service not found: ' + String(token)) and     *)
(* changes nothing in the container; the first resolve of a token after a  *)
(* clear and a registration returns an instance of the definition          *)
(* registered last.                                                        *)
C28_NotFoundAndReRegister ==
  \A j \in 1..Len(log) :
    resolved(j) =>
      /\ ~registeredAt(j) =>
           /\ isThrown(log[j].out)
           /\ log[j].out.error.name = "Error"
           /\ log[j].out.error.message =
                (IF log[j].token.type = "symbol"
                 THEN <<"Service not found: ", "Symbol(", log[j].token.key, ")">>
                 ELSE <<"Service not found: ", log[j].token.key>>)
           /\ ~log[j].changed
      /\ \A c \in 1..(j - 1), k \in 1..(j - 1) :
           (/\ log[c].call = "clear" /\ c < k
            /\ log[k].call = "register" /\ log[k].token = log[j].token
            /\ \A n \in (c + 1)..(j - 1) :
                 /\ log[n].call # "clear"
                 /\ log[n].token = log[j].token => log[n].call = "register"
            /\ \A n \in (k + 1)..(j - 1) : log[n].token # log[j].token) =>
             /\ ~isThrown(log[j].out)
             /\ log[j].out.of = log[k].definition.name
             /\ log[j].invoked = (log[k].definition.kind # "instance")

\* a token resolved to an instance of a class, then clear, then the token
\* not found, then registered with a factory and resolved to what it makes
C28_Witness ==
  \E t \in ContainerTokens :
    /\ Len(log) = 6
    /\ log[1].call = "register" /\ log[1].token = t /\ log[1].definition = Class("Service1")
    /\ resolved(2) /\ log[2].token = t /\ log[2].out = Object("Service1", 1)
    /\ log[3].call = "clear"
    /\ resolved(4) /\ log[4].token = t /\ isThrown(log[4].out)
    /\ log[5].call = "register" /\ log[5].token = t /\ log[5].definition = Factory("factory")
    /\ resolved(6) /\ log[6].token = t /\ log[6].out = Object("factory", 2)

\* an assessment that returned, and what it was asked
assessed(fl) == fl.op = "assessGDPR" /\ fl.pc = "returned"
typesOf(fl) == prop(fl.args, "dataTypes").v
sensitiveShared(fl) ==
  /\ Len(typesOf(fl)) = 3
  /\ \A j \in 1..3 : typesOf(fl)[j] \in {"Health records", "biometric"}
  /\ truthy(prop(fl.args, "thirdPartySharing"))
emailOnly(fl) ==
  /\ typesOf(fl) = <<"email">>
  /\ truthy(prop(fl.args, "legalBasis")) /\ truthy(prop(fl.args, "dataRetention"))
  /\ ~truthy(prop(fl.args, "thirdPartySharing"))
scoreAndLevel(fl) ==
  /\ fl.risk <= 100
  /\ fl.result.score \in 0..100
  /\ fl.result.score = 100 - fl.risk
  /\ fl.result.riskLevel = (IF fl.risk >= 80 THEN "critical"
                            ELSE IF fl.risk >= 60 THEN "high"
                            ELSE IF fl.risk >= 30 THEN "medium"
                            ELSE "low")

\* C29, as stated: the score is 100 minus the capped risk score, the level
\* follows the risk score (critical from 80, high from 60, medium from 30);
\* three sensitive types shared with third parties give critical, a score
\* below 50 and at least one violation; one e-mail type with legal basis,
\* retention and no sharing gives low, a score above 70 and no violation.
C29_AsStated ==
  \A f \in Flows :
    assessed(flow[f]) =>
      /\ scoreAndLevel(flow[f])
      /\ sensitiveShared(flow[f]) =>
           /\ flow[f].result.riskLevel = "critical"
           /\ flow[f].result.score < 50
           /\ Len(flow[f].result.violations) >= 1
      /\ emailOnly(flow[f]) =>
           /\ flow[f].result.riskLevel = "low"
           /\ flow[f].result.score > 70
           /\ Len(flow[f].result.violations) = 0

(* C29, amended: score and level as stated; three sensitive types shared   *)
(* with third parties give critical and a score below 50, and a violation  *)
(* exactly when the legal basis or the retention period is missing; one    *)
(* e-mail type with legal basis, retention and no sharing gives low, a     *)
(* score above 70 and no violation.                                        *)
C29_ScoreAndLevel ==
  \A f \in Flows :
    assessed(flow[f]) =>
      /\ scoreAndLevel(flow[f])
      /\ Len(flow[f].result.violations) =
           (IF truthy(prop(flow[f].args, "legalBasis")) THEN 0 ELSE 1)
           + (IF truthy(prop(flow[f].args, "dataRetention")) THEN 0 ELSE 1)
      /\ sensitiveShared(flow[f]) =>
           /\ flow[f].result.riskLevel = "critical"
           /\ flow[f].result.score < 50
      /\ emailOnly(flow[f]) =>
           /\ flow[f].result.riskLevel = "low"
           /\ flow[f].result.score > 70
           /\ Len(flow[f].result.violations) = 0

\* three sensitive types shared with third parties, with a legal basis and a
\* retention period: critical, score 0, no violation
C29_Witness ==
  \E f \in Flows :
    /\ assessed(flow[f]) /\ sensitiveShared(flow[f])
    /\ truthy(prop(flow[f].args, "legalBasis"))
    /\ truthy(prop(flow[f].args, "dataRetention"))
    /\ flow[f].result.riskLevel = "critical"
    /\ flow[f].result.score = 0
    /\ flow[f].result.violations = <<>>
\* a tool call of caller f that has settled
toolSettled(f) == flow[f].tool # Undefined /\ flow[f].pc \in {"returned", "threw"}

\* one item of type 'text' whose text is a string
oneText(response) ==
  /\ DOMAIN response = {"content"}
  /\ Len(response.content) = 1
  /\ response.content[1].type = "text"
  /\ response.content[1].text.t = "string"

\* C25: whatever the tool name and the arguments, and with other executeTool
\* calls in progress, executeTool never rejects, and what it resolves with is
\* a response whose content is exactly one item of type 'text' with a string
\* text.
C25_OneTextItem ==
  \A f \in DOMAIN flow :
    toolSettled(f) => flow[f].pc = "returned" /\ oneText(flow[f].response)

\* a search through the tool returned the court decisions it collected while
\* another caller's tool call was waiting for the remote provider, and a
\* call whose use case failed has resolved as well
C25_Witness ==
  \E f, g \in DOMAIN flow :
    /\ toolSettled(f)
    /\ flow[f].tool = Str("search_dutch_case_law")
    /\ flow[f].executed = 1
    /\ flow[f].thrown = NoError
    /\ Len(flow[f].result) >= 1
    /\ flow[f].response.content[1].text.v[1] = "# Court Case Law Results\n\n"
    /\ flow[g].tool # Undefined
    /\ flow[g].pc = "inflight"

\* the text of the response starts with 'Error: '
isErrorResponse(response) == oneText(response) /\ response.content[1].text.v[1] = "Error: "

\* C26: a call of executeTool with an unknown tool name, or with arguments
\* the tool's schema rejects, returns an 'Error:' response ('Unknown tool'
\* for the unknown name) in that same step, runs no use case, sends nothing
\* and leaves the container, the client registry and the clients untouched.
C26_RejectedBeforeUseCase ==
  [][\A f \in DOMAIN flow :
       (/\ flow'[f] # flow[f]
        /\ flow'[f].op = "executeTool"
        /\ \/ flow'[f].tool.v \notin ToolNames
           \/ flow'[f].args \in RejectedArgs(flow'[f].tool.v))
       => /\ flow'[f].pc = "returned"
          /\ isErrorResponse(flow'[f].response)
          /\ (flow'[f].tool.v \notin ToolNames
                => flow'[f].response.content[1].text.v[2][1] = "Unknown tool: ")
          /\ flow'[f].executed = 0
          /\ flow'[f].attempts = 0 /\ flow'[f].wire = 0
          /\ container' = container /\ clients' = clients /\ insts' = insts]_vars

\* one caller was answered 'Unknown tool', another was answered with the
\* messages of the two issues of its search arguments
C26_Witness ==
  \E f, g \in DOMAIN flow :
    /\ toolSettled(f) /\ flow[f].tool = Str("unknown_tool")
    /\ flow[f].response = formatError(<<"Unknown tool: ", "unknown_tool">>)
    /\ toolSettled(g) /\ flow[g].tool = Str("search_dutch_case_law")
    /\ flow[g].args = Obj([query |-> Str(""), maxResults |-> Num(200)])
    /\ flow[g].executed = 0
    /\ flow[g].response =
         formatError(<<"Query is required", ", ",
                       "Number must be less than or equal to ", 50>>)
(* ------------------- SpecService: the order of the fetches ------------- *)
\* C31: within one search, a getDetails call is started only when every
\* earlier call of that search has settled, retries included (the search is
\* then at the head of its loop and waits for nothing); so at any time at most
\* one of its getDetails calls has not settled.
C31_OneDetailAtATime ==
  [][\A f \in DOMAIN flow :
       (flow'[f].op = "search" /\ flow'[f].stage = "detail") =>
         /\ Len(flow'[f].fetched) <= Len(flow'[f].settled) + 1
         /\ (flow[f].op = "search" /\ Len(flow'[f].fetched) > Len(flow[f].fetched)) =>
              /\ Len(flow'[f].fetched) = Len(flow[f].fetched) + 1
              /\ Len(flow[f].settled) = Len(flow[f].fetched)
              /\ flow[f].pc = "nextDetail"]_vars

\* the fetch for the first identifier has failed; the fetch for the second
\* one is on the wire for its last retry
C31_Witness ==
  \E f \in Flows :
    /\ flow[f].op = "search" /\ flow[f].stage = "detail" /\ flow[f].pc = "inflight"
    /\ Len(flow[f].fetched) = 2
    /\ Len(flow[f].settled) = 1
    /\ isThrown(flow[f].settled[1])
    /\ flow[f].retryCount = maxRetries

(* ----------------------- SpecClient: backoff delays -------------------- *)
\* the delays in milliseconds before retry 0, 1, 2, ...: 1000 doubled each
\* time, not beyond 5000
DelayTable == <<1000, 2000, 4000, 5000, 5000, 5000>>

\* C32: the delay before retry n is min(1000 * 2^n, 5000) milliseconds, as
\* computed for n = 0..5 and as slept by every get and getXML; the delays of
\* one call never decrease and never exceed 5000.
C32_BackoffDelays ==
  /\ \A n \in 0..(Len(DelayTable) - 1) : retryDelay(n) = DelayTable[n + 1]
  /\ \A f \in Flows :
       /\ Len(flow[f].delays) <= Len(DelayTable)
       /\ \A j \in 1..Len(flow[f].delays) :
            /\ flow[f].delays[j] = DelayTable[j]
            /\ flow[f].delays[j] <= 5000
            /\ j > 1 => flow[f].delays[j - 1] <= flow[f].delays[j]
       /\ flow[f].pc = "backoff" => Len(flow[f].delays) = flow[f].retryCount + 1

\* a getXML slept 1000, 2000 and 4000 milliseconds and then ended in failure
C32_Witness ==
  \E f \in Flows :
    /\ flow[f].op = "getXML" /\ flow[f].pc = "returned"
    /\ flow[f].delays = <<1000, 2000, 4000>>
    /\ ~flow[f].result.success
(* ------------- SpecShared: interleaved callers, shared state ----------- *)
(* C33: however the calls of several callers interleave, every cache entry *)
(* of every client is one whole response (payload and etag together) that  *)
(* the remote gave to a request with the entry's key, and the registry     *)
(* holds each client under one key only, the one of its base address, and  *)
(* never replaces the client of a key.                                     *)
C33_SharedStateConsistent ==
  [][/\ \A c \in 1..Len(insts') : \A k \in DOMAIN insts'[c].cache :
          \E p \in CacheParams :
            /\ k = (IF p = <<>>
                    THEN <<"https://example.org/data", "-", "{", "}">>
                    ELSE <<"https://example.org/data", "-",
                           "{", "id", ":", "ECLI:NL:HR:2023:1", "}">>)
            /\ held(insts'[c].cache, k) \in SharedResponses(p)
     /\ \A k1 \in DOMAIN clients' :
          /\ clients'[k1] \in 1..Len(insts')
          /\ insts'[clients'[k1]].baseURL = (IF k1 = <<"default">> THEN NoBase ELSE k1)
          /\ \A k2 \in DOMAIN clients' : clients'[k1] = clients'[k2] => k1 = k2
          /\ k1 \in DOMAIN clients => clients'[k1] = clients[k1]]_vars

\* two gets for one uncached key were in flight together on the shared
\* client; both were answered, differently, and the entry is the later answer
C33_Witness ==
  /\ flow[1].op = "get" /\ flow[2].op = "get"
  /\ flow[1].pc = "returned" /\ flow[2].pc = "returned"
  /\ flow[1].inst = flow[2].inst
  /\ flow[1].params = IdParams /\ flow[2].params = IdParams
  /\ flow[1].lookup = "miss" /\ flow[2].lookup = "miss"
  /\ flow[1].wire = 1 /\ flow[2].wire = 1
  /\ flow[1].stored # flow[2].stored
  /\ held(insts[flow[1].inst].cache, keyOf(flow[1])) = flow[2].stored
  /\ Len(insts) = 2

(* ---------------- SpecKeys: the key of a cache entry ------------------- *)
\* the parameter mapping of a request: which name has which value
mapping(params) == {<<params[j][1], params[j][2]>> : j \in 1..Len(params)}

\* C34, as stated: a get uses the entry of an earlier request exactly when
\* both have the same path and the same parameter mapping, in whatever order
\* the parameters were supplied.
C34_KeyIsPathAndMapping ==
  \A f \in Flows :
    flow[f].op = "get" =>
      \A u \in KeyUrls, p \in KeyParams :
        getCacheKey(u, p) \in DOMAIN insts[flow[f].inst].cache =>
          (keyOf(flow[f]) = getCacheKey(u, p)
             <=> (flow[f].url = u /\ mapping(flow[f].params) = mapping(p)))

(* -------------- SpecService: identifiers of a search answer ------------ *)
\* the identifier of a feed entry, "" when it has none: the text of its id,
\* or the first element when the id is a list
identifierOf(entry) ==
  CASE entry.id.k = "scalar" -> entry.id.v
    [] entry.id.k = "array" /\ entry.id.v # <<>> -> entry.id.v[1]
    [] OTHER -> ""

\* C35: from a search answer with an entry list, search works with the
\* identifiers of the entries that have one, in the order of the entries
\* (the first element when the identifier is a list); entries without an
\* identifier are left out and raise nothing, in extraction or in search.
C35_IdentifiersInEntryOrder ==
  \A f \in Flows :
    (/\ flow[f].op = "search" /\ flow[f].searched # Null
     /\ flow[f].searched.success /\ truthyData(flow[f].searched.data)
     /\ flow[f].searched.data.feed /\ flow[f].searched.data.entry.k = "array") =>
      LET entries == flow[f].searched.data.entry.v
          having == {j \in 1..Len(entries) : identifierOf(entries[j]) # ""}
          nth(n) == CHOOSE j \in having : Cardinality({h \in having : h < j}) = n - 1
      IN /\ Len(flow[f].eclis) = Cardinality(having)
         /\ \A n \in 1..Len(flow[f].eclis) :
              flow[f].eclis[n] = identifierOf(entries[nth(n)])
         /\ flow[f].thrown = NoError /\ flow[f].pc # "threw"

\* five entries, one without id and one with an empty id: the three others
\* are fetched in their order and the search returns
C35_Witness ==
  \E f \in Flows :
    /\ flow[f].op = "search" /\ flow[f].pc = "returned"
    /\ flow[f].searched # Null /\ flow[f].searched.success
    /\ flow[f].searched.data.feed /\ flow[f].searched.data.entry.k = "array"
    /\ Len(flow[f].searched.data.entry.v) = 5
    /\ flow[f].searched.data.entry.v[2].id = Absent
    /\ flow[f].searched.data.entry.v[3].id = Array(<<Ecli2>>)
    /\ flow[f].eclis = <<Ecli1, Ecli2, Ecli3>>
    /\ flow[f].fetched = <<Ecli1, Ecli2>>

(* ------------------ SpecCache: gets that end in failure ---------------- *)
\* flow record fl is a get that returned a failure
failed(fl) == fl.op = "get" /\ fl.pc = "returned" /\ ~fl.result.success

(* C36: a get that fails changes the cache of its client in one way only:  *)
(* its lookup removes the entry of its own key when that entry has expired.*)
(* None of its later steps (rejected attempts, backoff, giving up) touches *)
(* any client's cache, so the failure is stored nowhere, and the next get  *)
(* for the same key, finding no fresh entry, sends a request.              *)
C36_FailureLeavesCache ==
  [][\A f \in DOMAIN flow :
       LET c == flow'[f].inst
           key == keyOf(flow'[f])
       IN /\ (called(f) /\ flow'[f].op = "get") =>
               /\ insts'[c].cache = IF flow'[f].lookup = "expired"
                                    THEN without(insts[c].cache, key)
                                    ELSE insts[c].cache
               /\ \A d \in 1..Len(insts) : d # c => insts'[d] = insts[d]
               /\ (failed(flow[f]) /\ flow[f].inst = c /\ keyOf(flow[f]) = key
                     /\ flow'[f].lookup # "fresh") =>
                    /\ flow'[f].pc = "inflight"
                    /\ flow'[f].attempts = 1 /\ flow'[f].wire = 1
          /\ (flow[f].op = "get" /\ ~ready(f) /\ flow'[f] # flow[f]
                /\ ~(flow'[f].pc = "returned" /\ flow'[f].result.success)) =>
               insts' = insts
          /\ (failed(flow'[f]) /\ flow'[f] # flow[f]) =>
               /\ insts' = insts
               /\ flow'[f].stored = NoHeld]_vars

\* a get met its expired entry, removed it, ran out of retries and returned
\* the failure: its key has no entry, the other key's entry is untouched
C36_Witness ==
  \E f \in Flows :
    /\ failed(flow[f])
    /\ flow[f].lookup = "expired" /\ flow[f].retryCount = maxRetries
    /\ flow[f].params = IdParams
    /\ keyOf(flow[f]) \notin DOMAIN insts[flow[f].inst].cache
    /\ getCacheKey(ExampleUrl, <<>>) \in DOMAIN insts[flow[f].inst].cache

(* --------------- SpecDefault: the registry's default key --------------- *)
\* C37, as stated: the client a call of getClient is given was constructed
\* by a call with the same base address (an omitted address being equal to
\* no address text, 'default' included), so no client is handed out for an
\* address other than its own.
C37_ClientOfItsOwnBase ==
  \A f \in Flows :
    flow[f].op = "get" => insts[flow[f].inst].baseURL = flow[f].baseUrl

(* ------------- SpecContainer: resolve after a re-registration ---------- *)
\* C38, as stated: a resolve of a registered token returns an instance built
\* from the definition that was registered last for the token, also when the
\* token was resolved before that registration.
C38_LatestDefinition ==
  \A j \in 1..Len(log) :
    (resolved(j) /\ registeredAt(j)) =>
      LET regs == {k \in 1..(j - 1) : log[k].call = "register" /\ log[k].token = log[j].token}
          last == CHOOSE k \in regs : \A h \in regs : h <= k
      IN /\ ~isThrown(log[j].out)
         /\ log[j].out.of = log[last].definition.name

(* ------------- SpecService: search answers without entries ------------- *)
\* C39: when the search answer decodes to a document that has no feed, a
\* feed without entry list, or an entry member that is no list, search works
\* with zero identifiers, raises nothing, calls getDetails for nothing and
\* returns the empty list.
C39_NoEntriesEmptyResult ==
  \A f \in Flows :
    (/\ flow[f].op = "search" /\ flow[f].searched # Null
     /\ flow[f].searched.success /\ truthyData(flow[f].searched.data)
     /\ \/ ~flow[f].searched.data.feed
        \/ flow[f].searched.data.entry.k # "array") =>
      /\ flow[f].eclis = <<>>
      /\ flow[f].pc = "returned" /\ flow[f].thrown = NoError
      /\ flow[f].result = <<>>
      /\ flow[f].fetched = <<>> /\ flow[f].settled = <<>>
      /\ flow[f].stage = "detail" /\ flow[f].maxResults = 0

\* the answer's entry member is a text: the search returned the empty list
C39_Witness ==
  \E f \in Flows :
    /\ flow[f].op = "search" /\ flow[f].pc = "returned"
    /\ flow[f].searched # Null /\ flow[f].searched.success
    /\ flow[f].searched.data.feed /\ flow[f].searched.data.entry.k = "scalar"
    /\ flow[f].result = <<>> /\ flow[f].fetched = <<>>

====
